---------------------------- MODULE Spec2Model ----------------------------
(***************************************************************************)
(* Document processing pipeline of VacationDistri: the Entity Mapper and   *)
(* Content Anonymizer (text_anonymizer.py), the Restructuring Client       *)
(* (llm_restructurer.py) and the Pipeline Orchestrator                     *)
(* (document_processor.py).                                                *)
(*                                                                         *)
(* Conventions.  A Python str is a sequence of one-character strings.  A   *)
(* Python dict whose iteration order matters (the mappings, a table row)   *)
(* is a sequence of <<key, value>> pairs in insertion order.  A dict with  *)
(* a fixed set of string keys (a page, a table, a sheet, a result) is a    *)
(* function whose DOMAIN is its key set, so that adding and popping a key  *)
(* changes the DOMAIN.  A timestamp (datetime.now()) is the string "now".  *)
(***************************************************************************)
EXTENDS Integers, Sequences, FiniteSets, TLC

(***************************************************************************)
(* Bounds of the model.                                                    *)
(***************************************************************************)
\* documents submitted to one orchestrator instance in one behaviour
MaxDocs == 2
\* length of the file list of one process_multiple_documents call
MaxBatch == 2
\* largest max_retries a direct restructure_data call is given
MaxRetriesArg == 3
\* the content traversal may raise on reaching page/sheet 1..MaxFault (0: never)
MaxFault == 2
\* direct calls made on one TextAnonymizer instance in one behaviour
MaxCalls == 3
\* longest `employees` array of an object handed to validate_restructured_data
MaxEmployees == 2
\* files uploaded to the web service in one behaviour
MaxTasks == 2
\* labels and separators making up a text handed to reverse_anonymization
MaxTokens == 3

(***************************************************************************)
(* Python str and dict helpers.                                            *)
(***************************************************************************)
\* s[i:j] with 0-based half-open offsets, clipped like a Python slice
Slice(s, i, j) ==
    LET lo == IF i < 0 THEN 0 ELSE IF i > Len(s) THEN Len(s) ELSE i
        hi == IF j < 0 THEN 0 ELSE IF j > Len(s) THEN Len(s) ELSE j
    IN  IF hi <= lo THEN <<>> ELSE SubSeq(s, lo + 1, hi)

\* str(n) for n >= 0: the decimal digits of n
Digit(d) == <<"0", "1", "2", "3", "4", "5", "6", "7", "8", "9">>[d + 1]

RECURSIVE IntToStr(_)
IntToStr(n) == IF n < 10 THEN <<Digit(n)>> ELSE IntToStr(n \div 10) \o <<Digit(n % 10)>>

\* s.strip() == "" for a non-empty s: every character is whitespace
IsBlank(s) == \A i \in 1..Len(s) : s[i] = " "

\* dict operations on insertion-ordered sequences of <<key, value>> pairs
DictKeys(d) == [i \in 1..Len(d) |-> d[i][1]]

DictHas(d, k) == \E i \in 1..Len(d) : d[i][1] = k

DictGet(d, k) == d[CHOOSE i \in 1..Len(d) : d[i][1] = k][2]

\* d[k] = v: an existing key keeps its position, a new key goes last
DictSet(d, k, v) ==
    IF DictHas(d, k)
    THEN [i \in 1..Len(d) |-> IF d[i][1] = k THEN <<k, v>> ELSE d[i]]
    ELSE Append(d, <<k, v>>)

\* defaultdict(int) lookup
DictGetInt(d, k) == IF DictHas(d, k) THEN DictGet(d, k) ELSE 0

RECURSIVE DictUpdate(_, _)
\* d.update(e)
DictUpdate(d, e) ==
    IF e = <<>> THEN d
    ELSE DictUpdate(DictSet(d, e[1][1], e[1][2]), Tail(e))

\* a dict with string keys as a function: r[k] = v (adds the key when missing)
WithKey(r, k, v) == [x \in DOMAIN r \cup {k} |-> IF x = k THEN v ELSE r[x]]

\* r.pop(k, None)
PopKey(r, k) == [x \in DOMAIN r \ {k} |-> r[x]]

(***************************************************************************)
(* The NER collaborator (spaCy): doc.ents of nlp(text).  The model tags    *)
(* every occurrence of a known entity string, scanning left to right, so   *)
(* the spans are pairwise disjoint and carry the exact text they cover.    *)
(***************************************************************************)
PER == <<"P", "E", "R">>
ORG == <<"O", "R", "G">>
PERSON == <<"P", "E", "R", "S", "O", "N">>

AnnaSchmidt == <<"A", "n", "n", "a", " ", "S", "c", "h", "m", "i", "d", "t">>

MaxMueller == <<"M", "a", "x", " ", "M", "ü", "l", "l", "e", "r">>

\* the entity strings the tagger knows, with their NER label
Lexicon == << [text |-> <<"A", "l">>, label |-> PER],
              [text |-> <<"B", "o">>, label |-> PER],
              [text |-> <<"X">>,      label |-> ORG],
              [text |-> AnnaSchmidt,  label |-> PERSON],
              [text |-> MaxMueller,   label |-> PERSON] >>

MatchAt(text, pos, w) == Slice(text, pos, pos + Len(w)) = w

\* ent.label_: the statistical model labels a span from its context, so one
\* string can carry different labels: a name that reads as an organisation
\* on its own reads as a person after a title
LabelInContext(text, pos, e) ==
    IF e.label = ORG /\ Slice(text, pos - 3, pos) = <<"M", "r", " ">> THEN PER ELSE e.label

RECURSIVE EntsFrom(_, _)
EntsFrom(text, pos) ==
    IF pos >= Len(text) THEN <<>>
    ELSE IF \E k \in 1..Len(Lexicon) : MatchAt(text, pos, Lexicon[k].text)
         THEN LET k == CHOOSE k \in 1..Len(Lexicon) : MatchAt(text, pos, Lexicon[k].text)
                  e == Lexicon[k]
              IN  << [start |-> pos, end |-> pos + Len(e.text),
                      text |-> e.text, label |-> LabelInContext(text, pos, e)] >>
                  \o EntsFrom(text, pos + Len(e.text))
         ELSE EntsFrom(text, pos + 1)

\* doc.ents: spans in ascending start order
nlp_ents(text) == EntsFrom(text, 0)

(***************************************************************************)
(* Entity Mapper: TextAnonymizer.anonymize_text.  A mapper value m bundles *)
(* the instance fields mapping_dict, entity_to_label, counter and          *)
(* session_stats.                                                          *)
(***************************************************************************)
\* TextAnonymizer.__init__ / reset_session: the empty session
EmptyMapper ==
    [ mapping_dict    |-> <<>>,
      entity_to_label |-> <<>>,
      counter         |-> <<>>,
      session_stats   |-> [total_entities  |-> 0,
                           entity_types    |-> <<>>,
                           unique_entities |-> 0] ]

\* entities.sort(key=start, reverse=True) on spans given in ascending start
\* order with distinct starts
RECURSIVE SortByStartDesc(_)
SortByStartDesc(ents) ==
    IF ents = <<>> THEN <<>>
    ELSE LET i == CHOOSE i \in 1..Len(ents) :
                     \A j \in 1..Len(ents) : ents[j].start <= ents[i].start
         IN  <<ents[i]>> \o SortByStartDesc([j \in 1..(Len(ents) - 1) |->
                                               IF j < i THEN ents[j] ELSE ents[j + 1]])

\* a label choice that never looks the entity up
LabelFor_AlwaysMint(m, entity) ==
    entity.label \o <<"_">> \o IntToStr(DictGetInt(m.counter, entity.label) + 1)

\* a label choice that reuses a label only for the NER label it was minted for
LabelFor_ByTextAndLabel(m, entity) ==
    IF /\ DictHas(m.entity_to_label, entity.text)
       /\ Slice(DictGet(m.entity_to_label, entity.text), 0, Len(entity.label)) = entity.label
    THEN DictGet(m.entity_to_label, entity.text)
    ELSE entity.label \o <<"_">> \o IntToStr(DictGetInt(m.counter, entity.label) + 1)

\* lines 108-112: the label of an entity, reused when its text is known,
\* else minted from the next ordinal of its NER label
LabelFor(m, entity) ==
    IF DictHas(m.entity_to_label, entity.text)
    THEN DictGet(m.entity_to_label, entity.text)
    ELSE entity.label \o <<"_">> \o IntToStr(DictGetInt(m.counter, entity.label) + 1)

\* a registration that starts the global mapping over with the new entry
Register_Forgetful(m, entity, anon_label) ==
    IF DictHas(m.entity_to_label, entity.text) THEN m
    ELSE [m EXCEPT
            !.counter = DictSet(@, entity.label, DictGetInt(@, entity.label) + 1),
            !.entity_to_label = DictSet(@, entity.text, anon_label),
            !.mapping_dict = << <<anon_label, entity.text>> >>,
            !.session_stats.unique_entities = @ + 1]

\* a registration that leaves the global mapping out
Register_SkipMapping(m, entity, anon_label) ==
    IF DictHas(m.entity_to_label, entity.text) THEN m
    ELSE [m EXCEPT
            !.counter = DictSet(@, entity.label, DictGetInt(@, entity.label) + 1),
            !.entity_to_label = DictSet(@, entity.text, anon_label),
            !.session_stats.unique_entities = @ + 1]

\* a registration that does not advance the counter
Register_NoCount(m, entity, anon_label) ==
    IF DictHas(m.entity_to_label, entity.text) THEN m
    ELSE [m EXCEPT
            !.entity_to_label = DictSet(@, entity.text, anon_label),
            !.mapping_dict = DictSet(@, anon_label, entity.text),
            !.session_stats.unique_entities = @ + 1]

\* a registration that counts a known entity as unique once more
Register_RecountKnown(m, entity, anon_label) ==
    IF DictHas(m.entity_to_label, entity.text)
    THEN [m EXCEPT !.session_stats.unique_entities = @ + 1]
    ELSE [m EXCEPT
            !.counter = DictSet(@, entity.label, DictGetInt(@, entity.label) + 1),
            !.entity_to_label = DictSet(@, entity.text, anon_label),
            !.mapping_dict = DictSet(@, anon_label, entity.text),
            !.session_stats.unique_entities = @ + 1]

\* lines 110-115: a new entity advances the counter and enters both mappings
Register(m, entity, anon_label) ==
    IF DictHas(m.entity_to_label, entity.text) THEN m
    ELSE [m EXCEPT
            !.counter = DictSet(@, entity.label, DictGetInt(@, entity.label) + 1),
            !.entity_to_label = DictSet(@, entity.text, anon_label),
            !.mapping_dict = DictSet(@, anon_label, entity.text),
            !.session_stats.unique_entities = @ + 1]

\* a count that leaves total_entities alone
CountOccurrence_TypesOnly(m, entity) ==
    [m EXCEPT !.session_stats.entity_types =
                  DictSet(@, entity.label, DictGetInt(@, entity.label) + 1)]

\* lines 124-125: every span counts as an occurrence
CountOccurrence(m, entity) ==
    [m EXCEPT !.session_stats.total_entities = @ + 1,
              !.session_stats.entity_types =
                  DictSet(@, entity.label, DictGetInt(@, entity.label) + 1)]

\* a replacement that skips as many characters as the label is long
ReplaceSpan_ByLabelLength(text, entity, anon_label) ==
    Slice(text, 0, entity.start) \o anon_label
       \o Slice(text, entity.start + Len(anon_label), Len(text))

\* line 121: anonymized_text[:start_pos] + anon_label + anonymized_text[end_pos:]
ReplaceSpan(text, entity, anon_label) ==
    Slice(text, 0, entity.start) \o anon_label \o Slice(text, entity.end, Len(text))

\* lines 117-125 for the label chosen; st = [text, local, m]
ProcessEntityWith(st, entity, anon_label) ==
    [ text  |-> ReplaceSpan(st.text, entity, anon_label),
      local |-> DictSet(st.local, anon_label, entity.text),
      m     |-> CountOccurrence(Register(st.m, entity, anon_label), entity) ]

\* one iteration of the `for entity in entities` loop
ProcessEntity(st, entity) == ProcessEntityWith(st, entity, LabelFor(st.m, entity))

RECURSIVE ProcessEntities(_, _)
ProcessEntities(st, entities) ==
    IF entities = <<>> THEN st
    ELSE ProcessEntities(ProcessEntity(st, Head(entities)), Tail(entities))

\* an anonymize_text that does not look at whether the NER model is loaded
anonymize_text_IgnoreAvail(text, m, avail) ==
    IF text = <<>> \/ IsBlank(text) THEN [text |-> text, local |-> <<>>, m |-> m]
    ELSE ProcessEntities([text |-> text, local |-> <<>>, m |-> m],
                         SortByStartDesc(nlp_ents(text)))

\* anonymize_text(text) on a mapper m whose NER model is loaded (avail) or not;
\* returns [text, local, m]
anonymize_text(text, m, avail) ==
    IF ~avail THEN [text |-> text, local |-> <<>>, m |-> m]
    ELSE IF text = <<>> \/ IsBlank(text) THEN [text |-> text, local |-> <<>>, m |-> m]
    ELSE ProcessEntities([text |-> text, local |-> <<>>, m |-> m],
                         SortByStartDesc(nlp_ents(text)))

\* the texts a caller hands to anonymize_text: empty, blank, with one, two or
\* no known entity, with a string that reads like a label, with a name whose
\* NER label comes from its context
AnnaTrafMax == AnnaSchmidt \o <<" ", "t", "r", "a", "f", " ">> \o MaxMueller \o <<".">>

Texts ==
    { <<>>,
      <<" ", " ">>,
      <<"A", "l">>,
      <<"B", "o", " ", "A", "l">>,
      <<"A", "l", " ", "X">>,
      <<"P", "E", "R", "_", "1", " ", "A", "l">>,
      <<"M", "r", " ", "X">>,
      AnnaTrafMax }

\* str.replace(old, new) for a non-empty old: every non-overlapping occurrence,
\* found from the left
RECURSIVE Replace(_, _, _)
Replace(s, old, new) ==
    IF Len(s) < Len(old) THEN s
    ELSE IF SubSeq(s, 1, Len(old)) = old
    THEN new \o Replace(SubSeq(s, Len(old) + 1, Len(s)), old, new)
    ELSE <<Head(s)>> \o Replace(Tail(s), old, new)

\* an order that takes the keys as the dict yields them
SortByLenDesc_AsGiven(keys) == keys

\* sorted(keys, key=len, reverse=True): longest first, keys of equal length in
\* their given order (the sort is stable)
RECURSIVE SortByLenDesc(_)
SortByLenDesc(keys) ==
    IF keys = <<>> THEN <<>>
    ELSE LET i == CHOOSE i \in 1..Len(keys) :
                     /\ \A j \in 1..Len(keys) : Len(keys[j]) <= Len(keys[i])
                     /\ \A j \in 1..(i - 1) : Len(keys[j]) < Len(keys[i])
         IN  <<keys[i]>> \o SortByLenDesc([j \in 1..(Len(keys) - 1) |->
                                             IF j < i THEN keys[j] ELSE keys[j + 1]])

\* the `for anon_label in sorted_labels` loop of reverse_anonymization
RECURSIVE ReplaceLabels(_, _, _)
ReplaceLabels(text, labels, mapping) ==
    IF labels = <<>> THEN text
    ELSE ReplaceLabels(Replace(text, Head(labels), DictGet(mapping, Head(labels))),
                       Tail(labels), mapping)

\* TextAnonymizer.reverse_anonymization(anonymized_text, mapping)
reverse_anonymization(anonymized_text, mapping) ==
    ReplaceLabels(anonymized_text, SortByLenDesc(DictKeys(mapping)), mapping)


(***************************************************************************)
(* Document records as DocumentExtractor produces them.  A cell or a JSON  *)
(* value is tagged with its Python type: [t |-> "str", v |-> chars],       *)
(* [t |-> "num", v |-> n].                                                 *)
(***************************************************************************)
None == [t |-> "none"]

Str(s) == [t |-> "str", v |-> s]

Num(n) == [t |-> "num", v |-> n]

\* ' | '.join(cells) of _extract_excel_sheet
RECURSIVE JoinCells(_)
JoinCells(cells) ==
    IF cells = <<>> THEN <<>>
    ELSE IF Len(cells) = 1 THEN cells[1].v
    ELSE cells[1].v \o <<" ", "|", " ">> \o JoinCells(Tail(cells))

\* _extract_pdf_page: one page record
PdfPage(n, text, tables) ==
    [page_number |-> n, tables |-> tables, text_content |-> text, errors |-> <<>>]

\* one table record of _extract_pdf_page; data is a list of rows, a row a dict
\* column name -> cell
PdfTable(id, data, cols) ==
    [table_id |-> id, rows |-> Len(data), columns |-> Len(cols),
     data |-> data, column_names |-> cols]

\* extract_pdf_content: the record of a readable PDF
PdfRecord(path, pages) ==
    [file_type |-> "pdf", file_path |-> path, pages |-> pages,
     metadata |-> [pages_count |-> Len(pages)],
     extraction_stats |-> [pages_processed |-> Len(pages), errors |-> <<>>]]

\* _extract_excel_sheet: one sheet record; rows is a list of cell lists
ExcelSheet(name, rows) ==
    [sheet_name |-> name,
     dimensions |-> [rows |-> Len(rows), columns |-> 2],
     content |-> [i \in 1..Len(rows) |->
                    [row_index |-> i - 1, cells |-> rows[i], raw_text |-> JoinCells(rows[i])]],
     non_empty_rows |-> Len(rows)]

\* extract_excel_content: the record of a readable workbook
ExcelRecord(path, sheets) ==
    [file_type |-> "excel", file_path |-> path, sheets |-> sheets,
     metadata |-> [sheets_count |-> Len(sheets)],
     extraction_stats |-> [sheets_processed |-> Len(sheets), errors |-> <<>>]]

\* The files on disk.  exists/ext drive get_file_type, readable says whether
\* the format-specific extraction succeeds, content is what it extracts.
FileSystem ==
    [ p \in {"a.pdf", "b.xlsx", "c.pdf", "e.pdf"} |->
        CASE p = "a.pdf" ->
               [exists |-> TRUE, ext |-> ".pdf", readable |-> TRUE,
                content |-> PdfRecord(p,
                   << PdfPage(1, <<"A", "l", " ", "X">>,
                              << PdfTable(1, << << <<"Name", Str(<<"B", "o">>)>>,
                                                   <<"Tage", Num(5)>> >> >>,
                                          <<"Name", "Tage">>) >>),
                      PdfPage(2, <<>>, <<>>) >>)]
          [] p = "b.xlsx" ->
               [exists |-> TRUE, ext |-> ".xlsx", readable |-> TRUE,
                content |-> ExcelRecord(p,
                   << ExcelSheet("S1", << << Str(<<"B", "o">>), Str(<<"A", "l">>) >> >>) >>)]
          [] p = "c.pdf" ->
               [exists |-> TRUE, ext |-> ".pdf", readable |-> FALSE, content |-> None]
          [] p = "e.pdf" ->
               [exists |-> FALSE, ext |-> ".pdf", readable |-> FALSE, content |-> None] ]

Paths == DOMAIN FileSystem

\* DocumentExtractor.get_file_type on an existing file
get_file_type(ext) ==
    IF ext \in {".pdf"} THEN "pdf"
    ELSE IF ext \in {".xlsx", ".xls"} THEN "excel"
    ELSE "unsupported"

\* DocumentExtractor.extract: [ok, exc, value]; exc names the exception class
extract(file_path) ==
    LET f == FileSystem[file_path]
    IN  IF ~f.exists
        THEN [ok |-> FALSE, exc |-> "FileNotFoundError", value |-> None]
        ELSE IF get_file_type(f.ext) = "unsupported" \/ ~f.readable
        THEN [ok |-> FALSE, exc |-> "ExtractionError", value |-> None]
        ELSE [ok |-> TRUE, exc |-> "", value |-> f.content]

(***************************************************************************)
(* Content Anonymizer: TextAnonymizer.anonymize_extracted_content and its  *)
(* in-place traversals.  Each traversal returns [results, m, raised];      *)
(* failAt > 0 makes the traversal raise when it reaches page/sheet number  *)
(* failAt, with the mapper updates of the nodes before it already done.    *)
(***************************************************************************)
\* lines 200-202 on the result r of anonymize_text; acc = [row, maps, m]
RowStep(acc, i, r) ==
    [ row  |-> [acc.row EXCEPT ![i] = <<@[1], Str(r.text)>>],
      maps |-> DictUpdate(acc.maps, r.local),
      m    |-> r.m ]

\* the `for col_name, cell_value in row.items()` loop
RECURSIVE AnonymizeRow(_, _, _)
AnonymizeRow(acc, i, avail) ==
    IF i > Len(acc.row) THEN acc
    ELSE IF acc.row[i][2].t = "str" /\ acc.row[i][2].v # <<>>
         THEN AnonymizeRow(RowStep(acc, i, anonymize_text(acc.row[i][2].v, acc.m, avail)),
                           i + 1, avail)
         ELSE AnonymizeRow(acc, i + 1, avail)

\* the row r = [row, maps, m] written back; acc = [data, maps, m]
TableRowStep(acc, i, r) ==
    [data |-> [acc.data EXCEPT ![i] = r.row], maps |-> r.maps, m |-> r.m]

\* the `for row_idx, row in enumerate(table['data'])` loop
RECURSIVE AnonymizeTableRows(_, _, _)
AnonymizeTableRows(acc, i, avail) ==
    IF i > Len(acc.data) THEN acc
    ELSE AnonymizeTableRows(
            TableRowStep(acc, i, AnonymizeRow([row |-> acc.data[i], maps |-> acc.maps,
                                               m |-> acc.m], 1, avail)),
            i + 1, avail)

\* line 204: table['anonymization_mapping'] = table_mappings; acc = [tables, m]
TableStep(acc, i, r) ==
    [ tables |-> [acc.tables EXCEPT ![i] =
                    WithKey([@ EXCEPT !.data = r.data], "anonymization_mapping", r.maps)],
      m |-> r.m ]

\* the `for table in page['tables']` loop
RECURSIVE AnonymizeTables(_, _, _)
AnonymizeTables(acc, i, avail) ==
    IF i > Len(acc.tables) THEN acc
    ELSE AnonymizeTables(
            TableStep(acc, i, AnonymizeTableRows([data |-> acc.tables[i].data, maps |-> <<>>,
                                                  m |-> acc.m], 1, avail)),
            i + 1, avail)

\* lines 186-189: the page text, when non-empty, is rewritten and the page
\* gets its mapping; r is the result of anonymize_text
PageText(page, m, r) ==
    IF page.text_content # <<>>
    THEN [page |-> WithKey([page EXCEPT !.text_content = r.text],
                           "anonymization_mapping", r.local),
          m |-> r.m]
    ELSE [page |-> page, m |-> m]

\* lines 195-204 on the page pm = [page, m] left by PageText
PageTables(pm, ts) == [page |-> [pm.page EXCEPT !.tables = ts.tables], m |-> ts.m]

PageTablesOf(pm, avail) ==
    PageTables(pm, AnonymizeTables([tables |-> pm.page.tables, m |-> pm.m], 1, avail))

\* one iteration of `for page in results['pages']`
AnonymizePage(page, m, avail) ==
    PageTablesOf(PageText(page, m, anonymize_text(page.text_content, m, avail)), avail)

\* acc = [results, m, raised] with page i replaced
PageStep(acc, i, r) ==
    [results |-> [acc.results EXCEPT !.pages[i] = r.page], m |-> r.m, raised |-> FALSE]

RECURSIVE AnonymizePages(_, _, _, _)
AnonymizePages(acc, i, avail, failAt) ==
    IF i > Len(acc.results.pages) THEN acc
    ELSE IF i = failAt THEN [acc EXCEPT !.raised = TRUE]
    ELSE AnonymizePages(PageStep(acc, i, AnonymizePage(acc.results.pages[i], acc.m, avail)),
                        i + 1, avail, failAt)

\* TextAnonymizer._anonymize_pdf_content
anonymize_pdf_content(results, m, avail, failAt) ==
    AnonymizePages([results |-> results, m |-> m, raised |-> FALSE], 1, avail, failAt)

\* lines 225-227 on the result r of anonymize_text; acc = [cells, maps, m]
CellStep(acc, r) ==
    [ cells |-> Append(acc.cells, Str(r.text)),
      maps  |-> DictUpdate(acc.maps, r.local),
      m     |-> r.m ]

\* the `for cell in row_data['cells']` loop
RECURSIVE AnonymizeCells(_, _, _, _)
AnonymizeCells(acc, cells, i, avail) ==
    IF i > Len(cells) THEN acc
    ELSE IF cells[i].t = "str"
         THEN AnonymizeCells(CellStep(acc, anonymize_text(cells[i].v, acc.m, avail)),
                             cells, i + 1, avail)
         ELSE AnonymizeCells([acc EXCEPT !.cells = Append(@, cells[i])], cells, i + 1, avail)

\* lines 217-219 on the result r of anonymize_text(raw_text): the accumulator
\* the cell loop starts from
RawTextStep(acc, r) ==
    [cells |-> <<>>, maps |-> DictUpdate(acc.maps, r.local), m |-> r.m]

\* lines 218 and 231 written back; acc = [content, maps, m]
SheetRowStep(acc, i, r, cs) ==
    [ content |-> [acc.content EXCEPT ![i] = [@ EXCEPT !.raw_text = r.text,
                                                       !.cells = cs.cells]],
      maps |-> cs.maps, m |-> cs.m ]

SheetRowWith(acc, i, r, avail) ==
    SheetRowStep(acc, i, r, AnonymizeCells(RawTextStep(acc, r), acc.content[i].cells, 1, avail))

\* the `for row_idx, row_data in enumerate(sheet['content'])` loop
RECURSIVE AnonymizeSheetRows(_, _, _)
AnonymizeSheetRows(acc, i, avail) ==
    IF i > Len(acc.content) THEN acc
    ELSE AnonymizeSheetRows(
            SheetRowWith(acc, i, anonymize_text(acc.content[i].raw_text, acc.m, avail), avail),
            i + 1, avail)

\* line 233: sheet['anonymization_mapping'] = sheet_mappings
SheetStep(acc, i, r) ==
    [ results |-> [acc.results EXCEPT !.sheets[i] =
                     WithKey([@ EXCEPT !.content = r.content], "anonymization_mapping", r.maps)],
      m |-> r.m, raised |-> FALSE ]

RECURSIVE AnonymizeSheets(_, _, _, _)
AnonymizeSheets(acc, i, avail, failAt) ==
    IF i > Len(acc.results.sheets) THEN acc
    ELSE IF i = failAt THEN [acc EXCEPT !.raised = TRUE]
    ELSE AnonymizeSheets(
            SheetStep(acc, i, AnonymizeSheetRows([content |-> acc.results.sheets[i].content,
                                                  maps |-> <<>>, m |-> acc.m], 1, avail)),
            i + 1, avail, failAt)

\* TextAnonymizer._anonymize_excel_content
anonymize_excel_content(results, m, avail, failAt) ==
    AnonymizeSheets([results |-> results, m |-> m, raised |-> FALSE], 1, avail, failAt)

\* the keys of session_stats['entity_types']
EntityTypesFound(m) == DictKeys(m.session_stats.entity_types)

\* lines 153-158: the deep copy with its anonymization_metadata
CopyWithMetadata(extraction_results) ==
    WithKey(extraction_results, "anonymization_metadata",
            [anonymized |-> TRUE, total_mappings |-> 0, entity_types_found |-> <<>>])

\* lines 161-164: the traversal chosen by file_type
Traverse(copy, m, avail, failAt) ==
    IF copy.file_type = "pdf" THEN anonymize_pdf_content(copy, m, avail, failAt)
    ELSE IF copy.file_type = "excel" THEN anonymize_excel_content(copy, m, avail, failAt)
    ELSE [results |-> copy, m |-> m, raised |-> FALSE]

\* lines 166-176: the metadata update and the return, or AnonymizationError
FinishAnonymization(r) ==
    IF r.raised
    THEN [raised |-> TRUE, results |-> None, m |-> r.m]
    ELSE [raised  |-> FALSE,
          results |-> [r.results EXCEPT !.anonymization_metadata =
                         [anonymized |-> TRUE,
                          total_mappings |-> Len(r.m.mapping_dict),
                          entity_types_found |-> EntityTypesFound(r.m)]],
          m |-> r.m]

\* an anonymize_extracted_content without the early return of lines 143-145
anonymize_extracted_content_NoGuard(extraction_results, m, avail, failAt) ==
    FinishAnonymization(Traverse(CopyWithMetadata(extraction_results), m, avail, failAt))

\* TextAnonymizer.anonymize_extracted_content: [raised, results, m].  With the
\* NER model missing it returns its argument itself, without metadata.
anonymize_extracted_content(extraction_results, m, avail, failAt) ==
    IF ~avail THEN [raised |-> FALSE, results |-> extraction_results, m |-> m]
    ELSE FinishAnonymization(Traverse(CopyWithMetadata(extraction_results), m, avail, failAt))

\* a sanitizer that forgets the per-table mappings (the inner loop of lines
\* 304-305 left out)
prepare_data_for_llm_SkipTables(anonymized_data) ==
    LET c0 == PopKey(anonymized_data, "anonymization_mapping")
        c1 == IF "pages" \in DOMAIN c0
              THEN [c0 EXCEPT !.pages =
                      [i \in 1..Len(@) |-> PopKey(@[i], "anonymization_mapping")]]
              ELSE c0
    IN  IF "sheets" \in DOMAIN c1
        THEN [c1 EXCEPT !.sheets =
                [i \in 1..Len(@) |-> PopKey(@[i], "anonymization_mapping")]]
        ELSE c1

\* traversals that write into the argument object, the deep copy left out
TraversalTarget_Argument == "arg"

\* line 150: the object the traversals write into is a deep copy of the
\* argument ("copy"), not the argument object ("arg")
TraversalTarget == "copy"

\* lines 143-145 and 176: the object handed back, the argument itself when the
\* NER model is missing, else the object the traversals wrote into
ReturnedObject(avail) == IF ~avail THEN "arg" ELSE TraversalTarget

\* the caller's record once the call is over: written into only if the
\* traversals worked on the argument object
ArgumentAfter(extraction_results, m, avail, failAt) ==
    IF avail /\ TraversalTarget = "arg"
    THEN Traverse(CopyWithMetadata(extraction_results), m, avail, failAt).results
    ELSE extraction_results

\* a sanitizer that forgets the per-sheet mappings (lines 307-309 left out)
prepare_data_for_llm_SkipSheets(anonymized_data) ==
    LET c0 == PopKey(anonymized_data, "anonymization_mapping")
    IN  IF "pages" \in DOMAIN c0
        THEN [c0 EXCEPT !.pages =
                [i \in 1..Len(@) |->
                   [PopKey(@[i], "anonymization_mapping") EXCEPT !.tables =
                      [j \in 1..Len(@) |-> PopKey(@[j], "anonymization_mapping")]]]]
        ELSE c0

\* TextAnonymizer.prepare_data_for_llm
prepare_data_for_llm(anonymized_data) ==
    LET c0 == PopKey(anonymized_data, "anonymization_mapping")
        c1 == IF "pages" \in DOMAIN c0
              THEN [c0 EXCEPT !.pages =
                      [i \in 1..Len(@) |->
                         LET pg == PopKey(@[i], "anonymization_mapping")
                         IN  IF "tables" \in DOMAIN pg
                             THEN [pg EXCEPT !.tables =
                                     [j \in 1..Len(@) |-> PopKey(@[j], "anonymization_mapping")]]
                             ELSE pg]]
              ELSE c0
        c2 == IF "sheets" \in DOMAIN c1
              THEN [c1 EXCEPT !.sheets =
                      [i \in 1..Len(@) |-> PopKey(@[i], "anonymization_mapping")]]
              ELSE c1
    IN  c2


(***************************************************************************)
(* Restructuring Client: LLMDataRestructurer.  A parsed JSON value is      *)
(* tagged with its Python type: "obj" (dict, a function on its keys),      *)
(* "arr" (list), "jstr", "num", "null".  A response text is a sequence of  *)
(* tokens: an opening fence with language tag, a bare fence, whitespace, a *)
(* complete JSON value, or text that is not JSON.                          *)
(***************************************************************************)
\* max_retries: int = 3
DefaultMaxRetries == 3

JObj(f) == [t |-> "obj", v |-> f]

JArr(s) == [t |-> "arr", v |-> s]

JStr(s) == [t |-> "jstr", v |-> s]

JNull == [t |-> "null", v |-> 0]

FenceJson == [k |-> "fence_json"]

Fence == [k |-> "fence"]

Ws == [k |-> "ws"]

Junk == [k |-> "junk"]

JsonTok(v) == [k |-> "json", v |-> v]

\* objects a completion may carry
ValidAbsence ==
    JObj([document_type |-> JStr("absence_records"), extraction_date |-> JStr("2023-01-15"),
          employees |-> JArr(<< JObj([employee_name |-> JStr("PER_1"),
                                      absence_records |-> JArr(<<>>)]) >>)])

NoDate == JObj([document_type |-> JStr("report")])

NullEmployees ==
    JObj([document_type |-> JStr("absence_records"), extraction_date |-> JStr("2023-01-15"),
          employees |-> JNull])

\* what one POST to the completion endpoint can come back with
Responses ==
    << [kind |-> "conn_error", content |-> <<>>],
       [kind |-> "http_error", content |-> <<>>],
       [kind |-> "no_choices", content |-> <<>>],
       [kind |-> "ok", content |-> <<Junk>>],
       [kind |-> "ok", content |-> <<Fence, Ws, JsonTok(ValidAbsence), Ws, Fence>>],
       [kind |-> "ok", content |-> <<Ws, FenceJson, Ws, JsonTok(ValidAbsence), Ws, Fence, Ws>>],
       [kind |-> "ok", content |-> <<JsonTok(NoDate)>>],
       [kind |-> "ok", content |-> <<JsonTok(NullEmployees)>>],
       [kind |-> "ok", content |-> <<JsonTok(JArr(<<>>))>>] >>

\* what the GET on the health URL can come back with
ProbeOutcomes == {"200", "non200", "raises"}

\* LLMDataRestructurer.is_available, given the outcome of its health request;
\* base_url is always configured (base_url or DEFAULT_CONFIG['base_url'])
is_available(probe) ==
    IF probe = "raises" THEN TRUE   \* self.base_url is not None
    ELSE probe = "200"

\* str.strip() on a token sequence
RECURSIVE LStrip(_)
LStrip(s) == IF s # <<>> /\ Head(s) = Ws THEN LStrip(Tail(s)) ELSE s

RECURSIVE RStrip(_)
RStrip(s) == IF s # <<>> /\ s[Len(s)] = Ws THEN RStrip(SubSeq(s, 1, Len(s) - 1)) ELSE s

Strip(s) == RStrip(LStrip(s))

\* lines 261-268: strip, drop a leading ```json, drop a trailing ```, strip
CleanResponse(content) ==
    LET t0 == Strip(content)
        t1 == IF t0 # <<>> /\ Head(t0) = FenceJson THEN Tail(t0) ELSE t0
        t2 == IF t1 # <<>> /\ t1[Len(t1)] = Fence THEN SubSeq(t1, 1, Len(t1) - 1) ELSE t1
    IN  Strip(t2)

\* json.loads: [ok, value]; a text parses iff it is exactly one JSON value
json_loads(text) ==
    IF Len(text) = 1 /\ text[1].k = "json"
    THEN [ok |-> TRUE, value |-> text[1].v]
    ELSE [ok |-> FALSE, value |-> JNull]

LLMError(kind) == [class |-> "LLMError", kind |-> kind]

OtherError(class) == [class |-> class, kind |-> ""]

NoError == [class |-> "", kind |-> ""]

\* a retry decision that gives up one attempt early
RetryAgain_OneEarly(attempt, max_retries) == attempt < max_retries - 2

\* the retry decision of lines 290-293 and 298-301: TRUE = continue
RetryAgain(attempt, max_retries) == attempt < max_retries - 1

\* an iteration that returns the parsed object as it came, without the stamp
Attempt_NoStamp(resp, attempt, max_retries, anonymized_data) ==
    IF resp.kind \in {"conn_error", "http_error"}
    THEN IF RetryAgain(attempt, max_retries)
         THEN [next |-> "continue", value |-> JNull, exc |-> NoError]
         ELSE [next |-> "raise", value |-> JNull, exc |-> LLMError("service_failure")]
    ELSE IF resp.kind = "no_choices"
    THEN [next |-> "raise", value |-> JNull, exc |-> OtherError("KeyError")]
    ELSE LET parsed == json_loads(CleanResponse(resp.content))
         IN  IF ~parsed.ok
             THEN IF RetryAgain(attempt, max_retries)
                  THEN [next |-> "continue", value |-> JNull, exc |-> NoError]
                  ELSE [next |-> "raise", value |-> JNull, exc |-> LLMError("invalid_response")]
             ELSE IF parsed.value.t # "obj"
             THEN [next |-> "raise", value |-> JNull, exc |-> OtherError("TypeError")]
             ELSE [next |-> "return", value |-> parsed.value, exc |-> NoError]

\* One iteration of the `for attempt in range(max_retries)` loop on response
\* resp: [next, value, exc] with next in {"continue", "return", "raise"}
Attempt(resp, attempt, max_retries, anonymized_data) ==
    IF resp.kind \in {"conn_error", "http_error"}
    THEN IF RetryAgain(attempt, max_retries)
         THEN [next |-> "continue", value |-> JNull, exc |-> NoError]
         ELSE [next |-> "raise", value |-> JNull, exc |-> LLMError("service_failure")]
    ELSE IF resp.kind = "no_choices"
    THEN [next |-> "raise", value |-> JNull, exc |-> OtherError("KeyError")]
    ELSE LET parsed == json_loads(CleanResponse(resp.content))
         IN  IF ~parsed.ok
             THEN IF RetryAgain(attempt, max_retries)
                  THEN [next |-> "continue", value |-> JNull, exc |-> NoError]
                  ELSE [next |-> "raise", value |-> JNull, exc |-> LLMError("invalid_response")]
             ELSE IF parsed.value.t # "obj"
             THEN [next |-> "raise", value |-> JNull, exc |-> OtherError("TypeError")]
             ELSE [next  |-> "return",
                   value |-> JObj(WithKey(parsed.value.v, "restructuring_metadata",
                                JObj([restructured_by |-> JStr("llm"),
                                      model_used |-> JStr("phi-3-mini-4k-instruct"),
                                      restructuring_date |-> JStr("now"),
                                      original_file |-> JStr(anonymized_data.file_path),
                                      anonymization_preserved |-> TRUE]))),
                   exc   |-> NoError]

\* the `for employee in data.get('employees', [])` loop: "true", "false" or
\* the exception class raised
RECURSIVE CheckEmployees(_, _)
CheckEmployees(emps, i) ==
    IF i > Len(emps) THEN "true"
    ELSE IF emps[i].t # "obj" THEN "AttributeError"
    ELSE IF "absence_records" \in DOMAIN emps[i].v /\ emps[i].v.absence_records.t = "arr"
    THEN CheckEmployees(emps, i + 1)
    ELSE "false"

\* LLMDataRestructurer.validate_restructured_data on a parsed object:
\* "true", "false" or the exception class raised
validate_restructured_data(data) ==
    IF ~({"document_type", "extraction_date"} \subseteq DOMAIN data.v) THEN "false"
    ELSE IF data.v.document_type = JStr("absence_records")
    THEN IF "employees" \notin DOMAIN data.v THEN "false"
         ELSE LET e == data.v.employees
              IN  IF e.t = "arr" THEN CheckEmployees(e.v, 1)
                  ELSE IF e.t \in {"null", "num"} THEN "TypeError"
                  ELSE IF e.t = "jstr" THEN (IF e.v = "" THEN "true" ELSE "AttributeError")
                  ELSE IF DOMAIN e.v = {} THEN "true" ELSE "AttributeError"
    ELSE "true"

\* what an element of `employees` can be: an object with an absence_records
\* array, without the key, with a null under it, a string, or null
EmployeeValues ==
    << JObj([employee_name |-> JStr("PER_1"), absence_records |-> JArr(<<>>)]),
       JObj([employee_name |-> JStr("PER_1")]),
       JObj([absence_records |-> JNull]),
       JStr("PER_1"),
       JNull >>

\* what `employees` can hold besides an array: null, a number, an empty or
\* non-empty string, an empty or non-empty object
EmployeesScalars ==
    << JNull, Num(1), JStr(""), JStr("PER_1"), JObj(<<>>), JObj([PER_1 |-> JArr(<<>>)]) >>

\* how a caller fills `employees`: not at all, with EmployeesScalars[i], or
\* with the array of the elements EmployeeValues[c[1]], EmployeeValues[c[2]], ...
EmployeesChoices ==
    {[kind |-> "absent", i |-> 0, c |-> <<>>]}
    \cup {[kind |-> "scalar", i |-> i, c |-> <<>>] : i \in 1..Len(EmployeesScalars)}
    \cup {[kind |-> "array", i |-> 0, c |-> c] :
            c \in UNION {[1..n -> 1..Len(EmployeeValues)] : n \in 0..MaxEmployees}}

\* the JSON object with document_type "absence_records" (d = 1), "report"
\* (d = 2) or no such key (d = 0), an extraction_date iff x, and employees as
\* chosen
ParsedObject(d, x, choice) ==
    LET keys == (IF d > 0 THEN {"document_type"} ELSE {})
                \cup (IF x THEN {"extraction_date"} ELSE {})
                \cup (IF choice.kind # "absent" THEN {"employees"} ELSE {})
    IN  JObj([k \in keys |->
                IF k = "document_type"
                THEN (IF d = 1 THEN JStr("absence_records") ELSE JStr("report"))
                ELSE IF k = "extraction_date" THEN JStr("2023-01-15")
                ELSE IF choice.kind = "scalar" THEN EmployeesScalars[choice.i]
                ELSE JArr([j \in 1..Len(choice.c) |-> EmployeeValues[choice.c[j]]])])


(***************************************************************************)
(* Pipeline Orchestrator: DocumentProcessor.  State.                       *)
(***************************************************************************)
VARIABLES
    nlp,               \* TextAnonymizer.nlp is not None (the NER model loaded)
    mapping_dict,      \* TextAnonymizer.mapping_dict: label -> original text
    entity_to_label,   \* TextAnonymizer.entity_to_label: original text -> label
    counter,           \* TextAnonymizer.counter: NER label -> last ordinal
    session_stats,     \* TextAnonymizer.session_stats
    processing_stats,  \* DocumentProcessor.processing_stats
    pc,                \* position of the running call
    frame,             \* locals of the running process_document call
    processing_result, \* its processing_result dict
    rd,                \* locals and outcome of the running restructure_data call
    outcome,           \* how process_document ended: returned or raised
    batch,             \* locals of the running process_multiple_documents call
    obs,               \* observation of the running call (not program state)
    call,              \* the last direct call on the TextAnonymizer: its arguments
                       \* and what it gave back
    validation,        \* the last direct validate_restructured_data call
    processing_tasks,  \* main.processing_tasks: task_id -> [status, completed_at]
    results_storage,   \* main.results_storage: task_id -> result
    background         \* the process_file_background coroutines, by task_id

vars == << nlp, mapping_dict, entity_to_label, counter, session_stats,
           processing_stats, pc, frame, processing_result, rd, outcome, batch, obs,
           call, validation, processing_tasks, results_storage, background >>

mapperVars == << mapping_dict, entity_to_label, counter, session_stats >>

\* the Entity Mapper's fields as one value
Mapper ==
    [ mapping_dict |-> mapping_dict, entity_to_label |-> entity_to_label,
      counter |-> counter, session_stats |-> session_stats ]

\* DocumentProcessor.__init__ / reset_stats; last_processed 0 stands for None,
\* n > 0 for the timestamp taken when the n-th submitted document finished
ZeroStats ==
    [ files_processed |-> 0, extraction_errors |-> 0, anonymization_errors |-> 0,
      restructuring_errors |-> 0, last_processed |-> 0 ]

NoFrame ==
    [ caller |-> "none", file_path |-> "", anonymize |-> FALSE, restructure |-> FALSE,
      extraction_results |-> None, llm_input_data |-> None ]

NoResult ==
    [ file_path |-> "", phases_completed |-> <<>>, errors |-> <<>>,
      warnings |-> <<>>, data |-> None ]

NoRd ==
    [ max_retries |-> 0, attempt |-> 0, anonymized_data |-> None,
      status |-> "none", value |-> JNull, exc |-> NoError ]

NoOutcome == [status |-> "none", exc |-> NoError]

NoBatch ==
    [ active |-> FALSE, file_paths |-> <<>>, anonymize |-> FALSE, restructure |-> FALSE,
      i |-> 0, results |-> <<>> ]

\* What is observed of one call: the mapper when it started (mapper0), the
\* collaborators invoked, in order (trace), the completion requests sent
\* (posts) and, for a direct restructure_data call, the outcome of its health
\* request (probe), the class of each response received (kinds) and the value
\* parsed from the last one (last).
NewObs(submitted) ==
    [ submitted |-> submitted, mapper0 |-> Mapper, trace |-> <<>>,
      posts |-> 0, probe |-> "", kinds |-> <<>>, last |-> JNull ]

\* between calls nothing is observed but the number of documents submitted
IdleObs(submitted) ==
    [ submitted |-> submitted, mapper0 |-> EmptyMapper, trace |-> <<>>,
      posts |-> 0, probe |-> "", kinds |-> <<>>, last |-> JNull ]

\* A direct call on the TextAnonymizer.  n counts the calls made; op names the
\* method; mapper0 is the mapper when the call started; current says that no
\* reset_session happened since.  For anonymize_text: the argument text, the
\* returned text out and mapping local, and prev, the text and mapping of the
\* anonymize_text call just before it in the same session.  For
\* anonymize_extracted_content: the caller's record before (input) and after
\* (input_after) the call, whether it raised, the returned record result and
\* whether the returned object is the argument object itself (same_object).
NoPrev == [valid |-> FALSE, text |-> <<>>, local |-> <<>>]

NoCall ==
    [ n |-> 0, op |-> "none", current |-> FALSE, mapper0 |-> EmptyMapper,
      text |-> <<>>, out |-> <<>>, local |-> <<>>, prev |-> NoPrev,
      input |-> None, input_after |-> None, raised |-> FALSE, result |-> None,
      same_object |-> FALSE ]

\* no validate_restructured_data call was made yet
NoValidation == [called |-> FALSE, data |-> JNull, result |-> ""]

\* the task ids upload_file hands out (uuid4, never reused)
TaskIds == 1..MaxTasks

\* a process_file_background coroutine that was not scheduled
NoCoroutine ==
    [ pc |-> "none", file_path |-> "", anonymize |-> FALSE, restructure |-> FALSE,
      entities |-> <<>>, known |-> FALSE,
      result |-> [phases_completed |-> <<>>, errors |-> <<>>, warnings |-> <<>>] ]

Init ==
    /\ nlp \in BOOLEAN
    /\ call = NoCall
    /\ validation = NoValidation
    /\ processing_tasks = <<>>
    /\ results_storage = <<>>
    /\ background = [t \in TaskIds |-> NoCoroutine]
    /\ mapping_dict = EmptyMapper.mapping_dict
    /\ entity_to_label = EmptyMapper.entity_to_label
    /\ counter = EmptyMapper.counter
    /\ session_stats = EmptyMapper.session_stats
    /\ processing_stats = ZeroStats
    /\ pc = "idle"
    /\ frame = NoFrame
    /\ processing_result = NoResult
    /\ rd = NoRd
    /\ outcome = NoOutcome
    /\ batch = NoBatch
    /\ obs = IdleObs(0)

SetMapper(m) ==
    /\ mapping_dict' = m.mapping_dict
    /\ entity_to_label' = m.entity_to_label
    /\ counter' = m.counter
    /\ session_stats' = m.session_stats

\* a phase list that grows at the front instead of the end
AppendPhase_Front(phases_completed, phase) == <<phase>> \o phases_completed

\* an append that enters the phase name twice
AppendPhase_Twice(phases_completed, phase) == phases_completed \o <<phase, phase>>

\* processing_result['phases_completed'].append(phase), lines 112, 130, 163
AppendPhase(phases_completed, phase) == Append(phases_completed, phase)

\* lines 98-105: a fresh processing_result
NewResult(file_path) ==
    [ file_path |-> file_path, phases_completed |-> <<>>, errors |-> <<>>,
      warnings |-> <<>>, data |-> None ]

\* entry of process_document
EnterDocument(caller, file_path, anonymize, restructure) ==
    /\ frame' = [ caller |-> caller, file_path |-> file_path, anonymize |-> anonymize,
                  restructure |-> restructure, extraction_results |-> None,
                  llm_input_data |-> None ]
    /\ processing_result' = NewResult(file_path)
    /\ rd' = NoRd
    /\ outcome' = NoOutcome
    /\ obs' = NewObs(obs.submitted + 1)
    /\ pc' = "extraction"

\* a caller invokes process_document(file_path, anonymize=, restructure=)
process_document ==
    /\ pc = "idle"
    /\ obs.submitted < MaxDocs
    /\ \E file_path \in Paths, anonymize \in BOOLEAN, restructure \in BOOLEAN :
          EnterDocument("single", file_path, anonymize, restructure)
    /\ UNCHANGED << validation, processing_tasks, results_storage, background,
                    nlp, call, mapperVars, processing_stats, batch >>

\* the handler of lines 193-197: any other exception becomes ProcessingError
Unexpected(class) ==
    /\ processing_result' = [processing_result EXCEPT
                               !.errors = Append(@, <<"Unexpected processing error", class>>)]
    /\ outcome' = [status |-> "raised", exc |-> [class |-> "ProcessingError", kind |-> class]]
    /\ pc' = "done"

\* a handler that records the extraction error but goes on to the next phase
\* instead of raising
ExtractionFailed_Continue(exc) ==
    /\ processing_result' = [processing_result EXCEPT
                               !.errors = Append(@, <<"Extraction failed", exc>>)]
    /\ processing_stats' = [processing_stats EXCEPT !.extraction_errors = @ + 1]
    /\ outcome' = outcome
    /\ pc' = "anonymization"

\* the handler of lines 118-122: ExtractionError is recorded, counted and
\* re-raised as ProcessingError
ExtractionFailed(exc) ==
    /\ processing_result' = [processing_result EXCEPT
                               !.errors = Append(@, <<"Extraction failed", exc>>)]
    /\ processing_stats' = [processing_stats EXCEPT !.extraction_errors = @ + 1]
    /\ outcome' = [status |-> "raised",
                   exc |-> [class |-> "ProcessingError", kind |-> "Extraction failed"]]
    /\ pc' = "done"

\* lines 111-113 on the outcome r of extract, or one of the handlers
ExtractionDone(r) ==
    IF r.ok
    THEN /\ processing_result' = [processing_result EXCEPT
                                    !.phases_completed = AppendPhase(@, "extraction"),
                                    !.data = r.value]
         /\ frame' = [frame EXCEPT !.extraction_results = r.value]
         /\ pc' = "anonymization"
         /\ UNCHANGED << outcome, processing_stats >>
    ELSE IF r.exc = "ExtractionError"
    THEN /\ ExtractionFailed(r.exc)
         /\ UNCHANGED frame
    ELSE /\ Unexpected(r.exc)
         /\ UNCHANGED << frame, processing_stats >>

\* Phase 1, lines 108-122
Extraction ==
    /\ pc = "extraction"
    /\ obs' = [obs EXCEPT !.trace = Append(@, "extract")]
    /\ ExtractionDone(extract(frame.file_path))
    /\ UNCHANGED << validation, processing_tasks, results_storage, background,
                    nlp, call, mapperVars, rd, batch >>

\* lines 129-131 and 140-145 on the outcome r of anonymize_extracted_content
AnonymizationDone(r) ==
    /\ SetMapper(r.m)
    /\ obs' = [obs EXCEPT !.trace = Append(@, "anonymize")]
    /\ IF r.raised
       THEN /\ processing_result' = [processing_result EXCEPT
                  !.errors = Append(@, <<"Anonymization failed", "AnonymizationError">>),
                  !.warnings = Append(@, "Continuing with non-anonymized data")]
            /\ processing_stats' = [processing_stats EXCEPT !.anonymization_errors = @ + 1]
       ELSE /\ processing_result' = [processing_result EXCEPT
                  !.phases_completed = AppendPhase(@, "anonymization"),
                  !.data = r.results]
            /\ UNCHANGED processing_stats

\* Phase 2, lines 124-147
Anonymization ==
    /\ pc = "anonymization"
    /\ pc' = "restructuring"
    /\ IF ~frame.anonymize
       THEN UNCHANGED << mapperVars, processing_result, processing_stats, obs >>
       ELSE IF ~nlp
       THEN /\ processing_result' = [processing_result EXCEPT
                                       !.warnings = Append(@, "Anonymization not available")]
            /\ UNCHANGED << mapperVars, processing_stats, obs >>
       ELSE \E failAt \in 0..MaxFault :
              AnonymizationDone(anonymize_extracted_content(frame.extraction_results,
                                                            Mapper, nlp, failAt))
    /\ UNCHANGED << validation, processing_tasks, results_storage, background,
                    nlp, call, frame, rd, outcome, batch >>

\* a handler that records the failure but does not count it
RestructuringFailed_NoCount(exc) ==
    /\ processing_result' = [processing_result EXCEPT
          !.errors = Append(@, <<"LLM restructuring failed", exc.class>>),
          !.warnings = Append(@, "Continuing without restructured data")]
    /\ processing_stats' = processing_stats
    /\ pc' = "update_stats"

\* the handler of lines 175-180
RestructuringFailed(exc) ==
    /\ processing_result' = [processing_result EXCEPT
          !.errors = Append(@, <<"LLM restructuring failed", exc.class>>),
          !.warnings = Append(@, "Continuing without restructured data")]
    /\ processing_stats' = [processing_stats EXCEPT !.restructuring_errors = @ + 1]
    /\ pc' = "update_stats"

\* lines 155-157: the record handed to restructure_data
LlmInput(data, anonymize, avail) ==
    IF anonymize /\ avail THEN prepare_data_for_llm(data) ELSE data

\* entry of restructure_data(anonymized_data, max_retries)
EnterRestructure(anonymized_data, max_retries) ==
    /\ rd' = [ max_retries |-> max_retries, attempt |-> 0, anonymized_data |-> anonymized_data,
               status |-> "running", value |-> JNull, exc |-> NoError ]
    /\ pc' = "rd_probe"

\* Phase 3 up to the call of restructure_data, lines 150-159 and 170-173
Restructuring ==
    /\ pc = "restructuring"
    /\ IF ~frame.restructure
       THEN /\ pc' = "update_stats"
            /\ UNCHANGED << frame, processing_result, rd, obs >>
       ELSE \E probe \in ProbeOutcomes :
              IF is_available(probe)
              THEN LET llm_input_data == LlmInput(processing_result.data, frame.anonymize, nlp)
                   IN  /\ frame' = [frame EXCEPT !.llm_input_data = llm_input_data]
                       /\ obs' = [obs EXCEPT !.trace =
                                     IF frame.anonymize /\ nlp
                                     THEN @ \o <<"sanitize", "restructure">>
                                     ELSE Append(@, "restructure")]
                       /\ EnterRestructure(llm_input_data, DefaultMaxRetries)
                       /\ UNCHANGED processing_result
              ELSE /\ processing_result' = [processing_result EXCEPT
                         !.warnings = Append(@, "LLM restructuring not available")]
                   /\ pc' = "update_stats"
                   /\ UNCHANGED << frame, rd, obs >>
    /\ UNCHANGED << validation, processing_tasks, results_storage, background,
                    nlp, call, mapperVars, processing_stats, outcome, batch >>

\* restructure_data ends: it returns value or raises exc
LeaveRestructure(status, value, exc) ==
    /\ rd' = [rd EXCEPT !.status = status, !.value = value, !.exc = exc]
    /\ pc' = "rd_done"

\* restructure_data lines 216-217: its own liveness probe
RestructureProbe ==
    /\ pc = "rd_probe"
    /\ \E probe \in ProbeOutcomes :
          /\ obs' = IF frame.caller = "direct" THEN [obs EXCEPT !.probe = probe] ELSE obs
          /\ IF is_available(probe)
             THEN /\ pc' = "rd_loop"
                  /\ UNCHANGED rd
             ELSE LeaveRestructure("raised", JNull, LLMError("service_unavailable"))
    /\ UNCHANGED << validation, processing_tasks, results_storage, background,
                    nlp, call, mapperVars, processing_stats, frame, processing_result,
                    outcome, batch >>

\* the class of a response as the retry loop sees it
ResponseKind(resp) ==
    IF resp.kind \in {"conn_error", "http_error"} THEN "transport"
    ELSE IF resp.kind = "no_choices" THEN "shape"
    ELSE IF json_loads(CleanResponse(resp.content)).ok THEN "json" ELSE "malformed"

\* a loop bound that lets one more iteration through
RangeExhausted_OneMore(attempt, max_retries) == attempt > max_retries

\* line 228: `for attempt in range(max_retries)` has no iteration left
RangeExhausted(attempt, max_retries) == attempt >= max_retries

\* restructure_data lines 228-303: one attempt, i.e. one POST and its handling
RestructureAttempt ==
    /\ pc = "rd_loop"
    /\ IF RangeExhausted(rd.attempt, rd.max_retries)
       THEN \* range(max_retries) is exhausted: line 303
            /\ LeaveRestructure("raised", JNull, LLMError("unexpected"))
            /\ UNCHANGED obs
       ELSE \E n \in 1..Len(Responses) :
              LET resp == Responses[n]
                  a == Attempt(resp, rd.attempt, rd.max_retries, rd.anonymized_data)
              IN  /\ obs' = IF frame.caller = "direct"
                            THEN [obs EXCEPT !.posts = @ + 1,
                                             !.kinds = Append(@, ResponseKind(resp)),
                                             !.last = json_loads(CleanResponse(resp.content)).value]
                            ELSE [obs EXCEPT !.posts = @ + 1]
                  /\ IF a.next = "continue"
                     THEN /\ rd' = [rd EXCEPT !.attempt = @ + 1]
                          /\ pc' = "rd_loop"
                     ELSE IF a.next = "return"
                     THEN LeaveRestructure("returned", a.value, NoError)
                     ELSE LeaveRestructure("raised", JNull, a.exc)
    /\ UNCHANGED << validation, processing_tasks, results_storage, background,
                    nlp, call, mapperVars, processing_stats, frame, processing_result,
                    outcome, batch >>

\* an orchestrator that runs what follows restructure_data twice
AfterRestructure_Twice(entries) ==
[obs EXCEPT !.trace = @ \o entries \o entries, !.posts = 0, !.probe = "", !.kinds = <<>>,
                !.last = JNull]

\* the observation once restructure_data has handed over its outcome: the
\* responses it saw are dropped, the trace gets the new entries
AfterRestructure(entries) ==
[obs EXCEPT !.trace = @ \o entries, !.posts = 0, !.probe = "", !.kinds = <<>>,
                !.last = JNull]

\* a branch that reports the invalid structure as an error
InvalidStructure_AsError ==
    /\ processing_result' = [processing_result EXCEPT
          !.errors = Append(@, <<"LLM restructuring produced invalid data structure", "">>)]
    /\ pc' = "update_stats"
    /\ UNCHANGED << outcome, processing_stats >>

\* a branch that keeps the object that failed validation in the result
InvalidStructure_KeepData ==
    /\ processing_result' =
          WithKey([processing_result EXCEPT
                     !.warnings = Append(@, "LLM restructuring produced invalid data structure")],
                  "restructured_data", rd.value)
    /\ pc' = "update_stats"
    /\ UNCHANGED << outcome, processing_stats >>

\* lines 165-168: validate_restructured_data returned False
InvalidStructure ==
    /\ processing_result' = [processing_result EXCEPT
          !.warnings = Append(@, "LLM restructuring produced invalid data structure")]
    /\ pc' = "update_stats"
    /\ UNCHANGED << outcome, processing_stats >>

\* Phase 3 after restructure_data, lines 159-180
Validation ==
    /\ pc = "rd_done"
    /\ frame.caller # "direct"
    /\ IF rd.status = "raised"
       THEN /\ IF rd.exc.class = "LLMError"
               THEN /\ RestructuringFailed(rd.exc)
                    /\ UNCHANGED outcome
               ELSE /\ Unexpected(rd.exc.class)
                    /\ UNCHANGED processing_stats
            /\ obs' = AfterRestructure(<<>>)
       ELSE /\ obs' = AfterRestructure(<<"validate">>)
            /\ IF validate_restructured_data(rd.value) = "true"
               THEN /\ processing_result' =
                         WithKey([processing_result EXCEPT
                                    !.phases_completed = AppendPhase(@, "restructuring")],
                                 "restructured_data", rd.value)
                    /\ pc' = "update_stats"
                    /\ UNCHANGED << outcome, processing_stats >>
               ELSE IF validate_restructured_data(rd.value) = "false"
               THEN InvalidStructure
               ELSE /\ Unexpected(validate_restructured_data(rd.value))
                    /\ UNCHANGED processing_stats
    /\ rd' = NoRd
    /\ UNCHANGED << validation, processing_tasks, results_storage, background,
                    nlp, call, mapperVars, frame, batch >>

\* lines 184-189: update the stats and return processing_result
UpdateStats ==
    /\ pc = "update_stats"
    /\ processing_stats' = [processing_stats EXCEPT
                              !.files_processed = @ + 1,
                              !.last_processed = obs.submitted]
    /\ outcome' = [status |-> "returned", exc |-> NoError]
    /\ pc' = "done"
    /\ UNCHANGED << validation, processing_tasks, results_storage, background,
                    nlp, call, mapperVars, frame, processing_result, rd, batch, obs >>

\* the caller of a single process_document call takes the result or exception
Return ==
    /\ pc = "done"
    /\ frame.caller = "single"
    /\ pc' = "idle"
    /\ frame' = NoFrame
    /\ processing_result' = NoResult
    /\ rd' = NoRd
    /\ outcome' = NoOutcome
    /\ obs' = IdleObs(obs.submitted)
    /\ UNCHANGED << validation, processing_tasks, results_storage, background,
                    nlp, call, mapperVars, processing_stats, batch >>

\* a caller invokes restructure_data(anonymized_data, max_retries) directly
restructure_data ==
    /\ pc = "idle"
    /\ \E p \in {q \in Paths : extract(q).ok}, max_retries \in 0..MaxRetriesArg :
          EnterRestructure(extract(p).value, max_retries)
    /\ frame' = [NoFrame EXCEPT !.caller = "direct"]
    /\ obs' = NewObs(obs.submitted)
    /\ UNCHANGED << validation, processing_tasks, results_storage, background,
                    nlp, call, mapperVars, processing_stats, processing_result, outcome, batch >>

\* the caller of a direct restructure_data call takes the result or exception
RestructureReturn ==
    /\ pc = "rd_done"
    /\ frame.caller = "direct"
    /\ pc' = "idle"
    /\ frame' = NoFrame
    /\ rd' = NoRd
    /\ obs' = IdleObs(obs.submitted)
    /\ UNCHANGED << validation, processing_tasks, results_storage, background,
                    nlp, call, mapperVars, processing_stats, processing_result, outcome, batch >>

(***************************************************************************)
(* DocumentProcessor.process_multiple_documents.                           *)
(***************************************************************************)
\* the file lists of length n
PathLists(n) == [1..n -> Paths]

\* a caller invokes process_multiple_documents(file_paths, anonymize, restructure)
process_multiple_documents ==
    /\ pc = "idle"
    /\ \E n \in 0..MaxBatch :
          /\ obs.submitted + n <= MaxDocs
          /\ \E file_paths \in PathLists(n), anonymize \in BOOLEAN, restructure \in BOOLEAN :
                batch' = [ active |-> TRUE, file_paths |-> file_paths, anonymize |-> anonymize,
                           restructure |-> restructure, i |-> 1, results |-> <<>> ]
    /\ pc' = "batch_loop"
    /\ UNCHANGED << validation, processing_tasks, results_storage, background,
                    nlp, call, mapperVars, processing_stats, frame, processing_result, rd,
                    outcome, obs >>

\* lines 218-226: the loop calls process_document on the next file
BatchNext ==
    /\ pc = "batch_loop"
    /\ batch.i <= Len(batch.file_paths)
    /\ EnterDocument("batch", batch.file_paths[batch.i], batch.anonymize, batch.restructure)
    /\ UNCHANGED << validation, processing_tasks, results_storage, background,
                    nlp, call, mapperVars, processing_stats, batch >>

\* an error entry that loses the message
error_result_NoMessage(file_path, e) ==
    [ file_path |-> file_path, phases_completed |-> <<>>,
      errors |-> <<>>, warnings |-> <<>>, data |-> None ]

\* lines 231-238: the entry built for a ProcessingError
error_result(file_path, e) ==
    [ file_path |-> file_path, phases_completed |-> <<>>,
      errors |-> << <<e.class, e.kind>> >>, warnings |-> <<>>, data |-> None ]

\* a loop that appends nothing for a document that raised
CollectResult_DropFailed(results, file_path, out, result) ==
    IF out.status = "returned" THEN Append(results, result) ELSE results

\* lines 227 and 239: results.append(result) or results.append(error_result)
CollectResult(results, file_path, out, result) ==
    Append(results, IF out.status = "returned" THEN result
                    ELSE error_result(file_path, out.exc))

\* lines 227-240: the loop appends the result or the error entry
BatchCollect ==
    /\ pc = "done"
    /\ frame.caller = "batch"
    /\ batch' = [batch EXCEPT
                   !.i = @ + 1,
                   !.results = CollectResult(@, batch.file_paths[batch.i], outcome,
                                             processing_result)]
    /\ pc' = "batch_loop"
    /\ frame' = NoFrame
    /\ processing_result' = NoResult
    /\ rd' = NoRd
    /\ outcome' = NoOutcome
    /\ obs' = IdleObs(obs.submitted)
    /\ UNCHANGED << validation, processing_tasks, results_storage, background,
                    nlp, call, mapperVars, processing_stats >>

\* lines 242-243: the loop is over and the list is returned
BatchReturn ==
    /\ pc = "batch_loop"
    /\ batch.i > Len(batch.file_paths)
    /\ pc' = "batch_done"
    /\ UNCHANGED << validation, processing_tasks, results_storage, background,
                    nlp, call, mapperVars, processing_stats, frame, processing_result, rd,
                    outcome, batch, obs >>

\* the caller takes the returned list
BatchDone ==
    /\ pc = "batch_done"
    /\ pc' = "idle"
    /\ batch' = NoBatch
    /\ UNCHANGED << validation, processing_tasks, results_storage, background,
                    nlp, call, mapperVars, processing_stats, frame, processing_result, rd,
                    outcome, obs >>

\* TextAnonymizer.reset_session
reset_session ==
    /\ pc = "idle"
    /\ SetMapper(EmptyMapper)
    /\ call' = [call EXCEPT !.current = FALSE]
    /\ UNCHANGED << validation, processing_tasks, results_storage, background,
                    nlp, processing_stats, pc, frame, processing_result, rd, outcome,
                    batch, obs >>

\* DocumentProcessor.reset_stats
reset_stats ==
    /\ pc = "idle"
    /\ processing_stats' = ZeroStats
    /\ UNCHANGED << validation, processing_tasks, results_storage, background,
                    nlp, call, mapperVars, pc, frame, processing_result, rd, outcome, batch, obs >>

\* get_processing_summary: the counts it prints and its status line
get_processing_summary(result) ==
    [ phases   |-> result.phases_completed,
      errors   |-> Len(result.errors),
      warnings |-> Len(result.warnings),
      status   |-> IF result.errors = <<>> THEN "Successfully completed"
                   ELSE "Completed with errors" ]

(***************************************************************************)
(* Direct calls on a TextAnonymizer instance.                              *)
(***************************************************************************)
\* the anonymize_text call before this one, when it belongs to the session
PrevOf(c) ==
    IF c.current /\ c.op = "anonymize_text"
    THEN [valid |-> TRUE, text |-> c.text, local |-> c.local]
    ELSE NoPrev

\* anonymize_text(text) gave r = [text, local, m]
TextCallDone(text, r) ==
    /\ SetMapper(r.m)
    /\ call' = [NoCall EXCEPT !.n = call.n + 1, !.op = "anonymize_text",
                              !.current = TRUE, !.mapper0 = Mapper,
                              !.text = text, !.out = r.text, !.local = r.local,
                              !.prev = PrevOf(call)]

\* a caller invokes anonymize_text(text)
AnonymizeTextCall ==
    /\ pc = "idle"
    /\ call.n < MaxCalls
    /\ \E text \in Texts : TextCallDone(text, anonymize_text(text, Mapper, nlp))
    /\ UNCHANGED << validation, processing_tasks, results_storage, background,
                    nlp, processing_stats, pc, frame, processing_result, rd, outcome,
                    batch, obs >>

\* anonymize_extracted_content(input) gave r = [raised, results, m]
ContentCallDone(input, r, failAt) ==
    /\ SetMapper(r.m)
    /\ call' = [NoCall EXCEPT !.n = call.n + 1, !.op = "anonymize_extracted_content",
                              !.current = TRUE, !.mapper0 = Mapper,
                              !.input = input,
                              !.input_after = ArgumentAfter(input, Mapper, nlp, failAt),
                              !.raised = r.raised, !.result = r.results,
                              !.same_object = ~r.raised /\ ReturnedObject(nlp) = "arg"]

\* a caller invokes anonymize_extracted_content(record) on an extracted record
AnonymizeContentCall ==
    /\ pc = "idle"
    /\ call.n < MaxCalls
    /\ \E p \in {q \in Paths : extract(q).ok}, failAt \in 0..MaxFault :
          ContentCallDone(extract(p).value,
                          anonymize_extracted_content(extract(p).value, Mapper, nlp, failAt),
                          failAt)
    /\ UNCHANGED << validation, processing_tasks, results_storage, background,
                    nlp, processing_stats, pc, frame, processing_result, rd, outcome,
                    batch, obs >>

(***************************************************************************)
(* Direct calls of LLMDataRestructurer.validate_restructured_data.         *)
(***************************************************************************)
\* a caller invokes validate_restructured_data(data) on a parsed object
ValidateCall ==
    /\ \E d \in 0..2, x \in BOOLEAN, choice \in EmployeesChoices :
          validation' = [ called |-> TRUE, data |-> ParsedObject(d, x, choice),
                          result |-> validate_restructured_data(ParsedObject(d, x, choice)) ]
    /\ UNCHANGED << processing_tasks, results_storage, background, nlp, call, mapperVars,
                    processing_stats, pc, frame, processing_result, rd, outcome, batch, obs >>

(***************************************************************************)
(* The web service, main.py: the task table, upload_file, delete_task and  *)
(* the process_file_background coroutines, all running on one event loop   *)
(* and sharing the one DocumentProcessor `processor`.  A coroutine is      *)
(* followed through process_document step by step; its result keeps        *)
(* phases_completed, errors and warnings, not the data.                    *)
(***************************************************************************)
RECURSIVE Flatten(_)
Flatten(ss) == IF ss = <<>> THEN <<>> ELSE Head(ss) \o Flatten(Tail(ss))

\* the texts anonymize_extracted_content hands to anonymize_text, in the
\* order of the traversals: per page the text, then the string cells of its
\* tables; per sheet row the raw text, then its string cells
RecordTexts(d) ==
    IF d.file_type = "pdf"
    THEN Flatten([i \in 1..Len(d.pages) |->
            <<d.pages[i].text_content>> \o
            Flatten([j \in 1..Len(d.pages[i].tables) |->
               Flatten([r \in 1..Len(d.pages[i].tables[j].data) |->
                  Flatten([c \in 1..Len(d.pages[i].tables[j].data[r]) |->
                     IF d.pages[i].tables[j].data[r][c][2].t = "str"
                     THEN <<d.pages[i].tables[j].data[r][c][2].v>> ELSE <<>>])])])])
    ELSE Flatten([i \in 1..Len(d.sheets) |->
            Flatten([r \in 1..Len(d.sheets[i].content) |->
               <<d.sheets[i].content[r].raw_text>> \o
               Flatten([c \in 1..Len(d.sheets[i].content[r].cells) |->
                  IF d.sheets[i].content[r].cells[c].t = "str"
                  THEN <<d.sheets[i].content[r].cells[c].v>> ELSE <<>>])])])

\* the entities of these texts in the order the `for entity in entities`
\* loops meet them
RECURSIVE RecordSpans(_)
RecordSpans(texts) ==
    IF texts = <<>> THEN <<>>
    ELSE (IF IsBlank(Head(texts)) THEN <<>> ELSE SortByStartDesc(nlp_ents(Head(texts))))
         \o RecordSpans(Tail(texts))

\* text_anonymizer.py lines 111-115, the else branch on its own: the counter
\* advances, the label is built from it and written into both mappings
Mint(m, entity) ==
    [m EXCEPT
       !.counter = DictSet(@, entity.label, DictGetInt(@, entity.label) + 1),
       !.entity_to_label =
           DictSet(@, entity.text,
                   entity.label \o <<"_">> \o IntToStr(DictGetInt(m.counter, entity.label) + 1)),
       !.mapping_dict =
           DictSet(@, entity.label \o <<"_">> \o IntToStr(DictGetInt(m.counter, entity.label) + 1),
                   entity.text),
       !.session_stats.unique_entities = @ + 1]

\* an event loop that would start a coroutine while another one is running
LoopFree_Always == TRUE

\* The event loop runs one coroutine at a time and switches only at an
\* await; process_file_background, upload_file and delete_task have none
\* after their first statement, so each runs only while no
\* process_file_background is under way.
LoopFree ==
    \A t \in TaskIds : background[t].pc \in {"none", "queued", "returned", "crashed"}

\* upload_file, lines 108-161: a new task id is entered as 'pending' and the
\* coroutine is queued with add_task
upload_file ==
    /\ LoopFree
    /\ \E t \in TaskIds :
          /\ background[t].pc = "none"
          /\ \A u \in 1..(t - 1) : background[u].pc # "none"
          /\ \E file_path \in {"a.pdf", "b.xlsx", "c.pdf"}, anonymize \in BOOLEAN,
                restructure \in BOOLEAN :
                background' = [background EXCEPT ![t] =
                    [NoCoroutine EXCEPT !.pc = "queued", !.file_path = file_path,
                                        !.anonymize = anonymize, !.restructure = restructure]]
          /\ processing_tasks' = WithKey(processing_tasks, t,
                                         [status |-> "pending", completed_at |-> "None"])
    /\ UNCHANGED << validation, results_storage, nlp, call, mapperVars, processing_stats, pc,
                    frame, processing_result, rd, outcome, batch, obs >>

\* delete_task, lines 276-285
delete_task ==
    /\ LoopFree
    /\ \E t \in DOMAIN processing_tasks :
          /\ processing_tasks' = PopKey(processing_tasks, t)
          /\ results_storage' = PopKey(results_storage, t)
    /\ UNCHANGED << validation, background, nlp, call, mapperVars, processing_stats, pc,
                    frame, processing_result, rd, outcome, batch, obs >>

\* a handler that marks the task 'failed' without stamping completed_at
FailTask_NoTimestamp(t) ==
    IF t \in DOMAIN processing_tasks
    THEN /\ processing_tasks' = [processing_tasks EXCEPT ![t].status = "failed"]
         /\ background' = [background EXCEPT ![t] = [NoCoroutine EXCEPT !.pc = "returned"]]
    ELSE /\ processing_tasks' = processing_tasks
         /\ background' = [background EXCEPT ![t] = [NoCoroutine EXCEPT !.pc = "crashed"]]

\* lines 188-194: the handler of process_file_background marks the task
\* 'failed' (the result of the failed call is not kept); without an entry for
\* the task the handler itself raises KeyError, which leaves the coroutine
FailTask(t) ==
    IF t \in DOMAIN processing_tasks
    THEN /\ processing_tasks' = [processing_tasks EXCEPT
                                   ![t] = [status |-> "failed", completed_at |-> "now"]]
         /\ background' = [background EXCEPT ![t] = [NoCoroutine EXCEPT !.pc = "returned"]]
    ELSE /\ processing_tasks' = processing_tasks
         /\ background' = [background EXCEPT ![t] = [NoCoroutine EXCEPT !.pc = "crashed"]]

\* lines 171-173: the event loop starts a queued coroutine, which marks its
\* task 'processing' and calls process_document
BgStart ==
    /\ LoopFree
    /\ \E t \in TaskIds :
          /\ background[t].pc = "queued"
          /\ IF t \in DOMAIN processing_tasks
             THEN /\ processing_tasks' = [processing_tasks EXCEPT ![t].status = "processing"]
                  /\ background' = [background EXCEPT ![t].pc = "extract"]
             ELSE FailTask(t)
    /\ UNCHANGED << validation, results_storage, nlp, call, mapperVars, processing_stats, pc,
                    frame, processing_result, rd, outcome, batch, obs >>

\* process_document lines 108-122 in the coroutine; the upload is on disk, so
\* extraction returns or raises ExtractionError
BgExtract ==
    /\ \E t \in TaskIds :
          /\ background[t].pc = "extract"
          /\ IF extract(background[t].file_path).ok
             THEN /\ background' = [background EXCEPT
                        ![t].pc = "anonymize",
                        ![t].result.phases_completed = AppendPhase(@, "extraction")]
                  /\ UNCHANGED << processing_tasks, processing_stats >>
             ELSE /\ FailTask(t)
                  /\ processing_stats' = [processing_stats EXCEPT !.extraction_errors = @ + 1]
    /\ UNCHANGED << validation, results_storage, nlp, call, mapperVars, pc, frame,
                    processing_result, rd, outcome, batch, obs >>

\* process_document lines 125-147 in the coroutine, up to the first entity of
\* the traversal.  The traversal may raise (AnonymizationError, lines
\* 140-145); here it does so before it reaches its first entity or not at all.
BgAnonymize ==
    /\ \E t \in TaskIds :
          /\ background[t].pc = "anonymize"
          /\ IF ~background[t].anonymize
             THEN /\ background' = [background EXCEPT ![t].pc = "restructure"]
                  /\ UNCHANGED processing_stats
             ELSE IF ~nlp
             THEN /\ background' = [background EXCEPT
                        ![t].pc = "restructure",
                        ![t].result.warnings = Append(@, "Anonymization not available")]
                  /\ UNCHANGED processing_stats
             ELSE \/ /\ background' = [background EXCEPT
                           ![t].pc = "check",
                           ![t].entities =
                               RecordSpans(RecordTexts(extract(background[t].file_path).value))]
                     /\ UNCHANGED processing_stats
                  \/ /\ background' = [background EXCEPT
                           ![t].pc = "restructure",
                           ![t].result.errors =
                               Append(@, <<"Anonymization failed", "AnonymizationError">>),
                           ![t].result.warnings =
                               Append(@, "Continuing with non-anonymized data")]
                     /\ processing_stats' = [processing_stats EXCEPT
                                               !.anonymization_errors = @ + 1]
    /\ UNCHANGED << validation, processing_tasks, results_storage, nlp, call, mapperVars, pc,
                    frame, processing_result, rd, outcome, batch, obs >>

\* anonymize_text line 108 for the next entity of the traversal:
\* `ent_text in self.entity_to_label`; with no entity left the traversal
\* returns and the phase is entered (process_document lines 130-133)
BgCheck ==
    /\ \E t \in TaskIds :
          /\ background[t].pc = "check"
          /\ IF background[t].entities = <<>>
             THEN background' = [background EXCEPT
                     ![t].pc = "restructure",
                     ![t].result.phases_completed = AppendPhase(@, "anonymization")]
             ELSE background' = [background EXCEPT
                     ![t].pc = "mint",
                     ![t].known = DictHas(entity_to_label, Head(background[t].entities).text)]
    /\ UNCHANGED << validation, processing_tasks, results_storage, nlp, call, mapperVars,
                    processing_stats, pc, frame, processing_result, rd, outcome, batch, obs >>

\* anonymize_text lines 109-125 for the entity just looked up: its label is
\* read or minted, the occurrence is counted
BgMint ==
    /\ \E t \in TaskIds :
          /\ background[t].pc = "mint"
          /\ SetMapper(CountOccurrence(IF background[t].known THEN Mapper
                                       ELSE Mint(Mapper, Head(background[t].entities)),
                                       Head(background[t].entities)))
          /\ background' = [background EXCEPT ![t].pc = "check",
                                              ![t].entities = Tail(@)]
    /\ UNCHANGED << validation, processing_tasks, results_storage, nlp, call,
                    processing_stats, pc, frame, processing_result, rd, outcome, batch, obs >>

\* process_document lines 150-182 in the coroutine, by the way phase 3 ends:
\* skipped, validated, invalid structure, service unavailable at the first
\* probe, LLMError from restructure_data, or another exception, which the
\* outer handler turns into ProcessingError (lines 193-197)
BgRestructure ==
    /\ \E t \in TaskIds :
          /\ background[t].pc = "restructure"
          /\ IF ~background[t].restructure
             THEN /\ background' = [background EXCEPT ![t].pc = "finish"]
                  /\ UNCHANGED << processing_tasks, processing_stats >>
             ELSE \/ /\ background' = [background EXCEPT
                           ![t].pc = "finish",
                           ![t].result.phases_completed = AppendPhase(@, "restructuring")]
                     /\ UNCHANGED << processing_tasks, processing_stats >>
                  \/ \E w \in {"LLM restructuring produced invalid data structure",
                               "LLM restructuring not available"} :
                        /\ background' = [background EXCEPT
                              ![t].pc = "finish", ![t].result.warnings = Append(@, w)]
                        /\ UNCHANGED << processing_tasks, processing_stats >>
                  \/ /\ background' = [background EXCEPT
                           ![t].pc = "finish",
                           ![t].result.errors =
                               Append(@, <<"LLM restructuring failed", "LLMError">>),
                           ![t].result.warnings =
                               Append(@, "Continuing without restructured data")]
                     /\ processing_stats' = [processing_stats EXCEPT
                                               !.restructuring_errors = @ + 1]
                     /\ UNCHANGED processing_tasks
                  \/ /\ FailTask(t)
                     /\ UNCHANGED processing_stats
    /\ UNCHANGED << validation, results_storage, nlp, call, mapperVars, pc, frame,
                    processing_result, rd, outcome, batch, obs >>

\* process_document lines 184-189 and process_file_background lines 182-185:
\* the stats are updated, the result is stored and the task marked
\* 'completed'; without an entry for the task that raises KeyError, and so
\* does the handler
BgFinish ==
    /\ \E t \in TaskIds :
          /\ background[t].pc = "finish"
          /\ processing_stats' = [processing_stats EXCEPT
                 !.files_processed = @ + 1,
                 !.last_processed =
                     Cardinality({u \in TaskIds : background[u].pc \notin {"none", "queued"}})]
          /\ results_storage' = WithKey(results_storage, t, background[t].result)
          /\ IF t \in DOMAIN processing_tasks
             THEN /\ processing_tasks' = [processing_tasks EXCEPT
                                            ![t] = [status |-> "completed", completed_at |-> "now"]]
                  /\ background' = [background EXCEPT
                                      ![t] = [NoCoroutine EXCEPT !.pc = "returned"]]
             ELSE FailTask(t)
    /\ UNCHANGED << validation, nlp, call, mapperVars, pc, frame, processing_result, rd,
                    outcome, batch, obs >>

Next ==
    \/ process_document
    \/ Extraction
    \/ Anonymization
    \/ Restructuring
    \/ RestructureProbe
    \/ RestructureAttempt
    \/ Validation
    \/ UpdateStats
    \/ Return
    \/ restructure_data
    \/ RestructureReturn
    \/ process_multiple_documents
    \/ BatchNext
    \/ BatchCollect
    \/ BatchReturn
    \/ BatchDone
    \/ reset_session
    \/ reset_stats

Spec == Init /\ [][Next]_vars

\* a TextAnonymizer instance used on its own
AnonymizerNext ==
    \/ AnonymizeTextCall
    \/ AnonymizeContentCall
    \/ reset_session

AnonymizerSpec == Init /\ [][AnonymizerNext]_vars

\* an LLMDataRestructurer used on its own as a validator
ValidatorSpec == Init /\ [][ValidateCall]_vars

\* the web service: uploads, deletions and the background coroutines
ServiceNext ==
    \/ upload_file
    \/ delete_task
    \/ BgStart
    \/ BgExtract
    \/ BgAnonymize
    \/ BgCheck
    \/ BgMint
    \/ BgRestructure
    \/ BgFinish

ServiceSpec == Init /\ [][ServiceNext]_vars

\* A caller invokes reverse_anonymization(anonymized_text, mapping) with a
\* mapping of its own in which one label is a prefix of the other, given in
\* either insertion order, on a text made of these labels and blanks.
ReverseCall ==
    /\ \E n \in 0..MaxTokens :
          \E tokens \in [1..n -> {PERSON \o <<"_", "1">>, PERSON \o <<"_", "1", "0">>, <<" ">>}],
             mapping \in { << <<PERSON \o <<"_", "1">>, <<"A", "l">>>>,
                              <<PERSON \o <<"_", "1", "0">>, <<"B", "o">>>> >>,
                           << <<PERSON \o <<"_", "1", "0">>, <<"B", "o">>>>,
                              <<PERSON \o <<"_", "1">>, <<"A", "l">>>> >> } :
             call' = [NoCall EXCEPT !.op = "reverse_anonymization",
                                    !.text = Flatten(tokens), !.local = mapping,
                                    !.out = reverse_anonymization(Flatten(tokens), mapping)]
    /\ UNCHANGED << validation, processing_tasks, results_storage, background, nlp,
                    mapperVars, processing_stats, pc, frame, processing_result, rd, outcome,
                    batch, obs >>

ReverseSpec == Init /\ [][ReverseCall]_vars


(***************************************************************************)
(* Properties.                                                             *)
(***************************************************************************)
Phases == <<"extraction", "anonymization", "restructuring">>

IsPrefix(s, t) == Len(s) <= Len(t) /\ SubSeq(t, 1, Len(s)) = s

MappingKey == "anonymization_mapping"

\* a row dict has the key
RowHasKey(row, k) == \E c \in 1..Len(row) : row[c][1] = k

PageHasMappingKey(page) ==
    \/ MappingKey \in DOMAIN page
    \/ \E j \in 1..Len(page.tables) :
          \/ MappingKey \in DOMAIN page.tables[j]
          \/ \E r \in 1..Len(page.tables[j].data) : RowHasKey(page.tables[j].data[r], MappingKey)

SheetHasMappingKey(sheet) ==
    \/ MappingKey \in DOMAIN sheet
    \/ MappingKey \in DOMAIN sheet.dimensions
    \/ \E r \in 1..Len(sheet.content) : MappingKey \in DOMAIN sheet.content[r]

\* the record d has an anonymization_mapping key at some nesting level
HasMappingKey(d) ==
    \/ MappingKey \in DOMAIN d
    \/ MappingKey \in DOMAIN d.metadata
    \/ MappingKey \in DOMAIN d.extraction_stats
    \/ "anonymization_metadata" \in DOMAIN d /\ MappingKey \in DOMAIN d.anonymization_metadata
    \/ "pages" \in DOMAIN d /\ \E i \in 1..Len(d.pages) : PageHasMappingKey(d.pages[i])
    \/ "sheets" \in DOMAIN d /\ \E i \in 1..Len(d.sheets) : SheetHasMappingKey(d.sheets[i])

\* a process_document call (single or from a batch) is running
InDocument == frame.caller \in {"single", "batch"}

\* restructure_data is running or has just ended
InRestructure == pc \in {"rd_probe", "rd_loop", "rd_done"}

C2_PhasesPrefix ==
    (InDocument /\ pc = "done" /\ outcome.status = "returned")
        => IsPrefix(processing_result.phases_completed, Phases)

\* C2 amended: every result returned by process_document has a
\* phases_completed that is a prefix of [extraction, anonymization,
\* restructuring] or is [extraction, restructuring], the latter only when
\* anonymization was disabled, unavailable or raised.
C2_PhasesPrefixOrSkip ==
    (InDocument /\ pc = "done" /\ outcome.status = "returned")
        => \/ IsPrefix(processing_result.phases_completed, Phases)
           \/ /\ processing_result.phases_completed = <<"extraction", "restructuring">>
              /\ \/ ~frame.anonymize
                 \/ ~nlp
                 \/ \E i \in 1..Len(processing_result.errors) :
                       processing_result.errors[i][1] = "Anonymization failed"

\* C2 witness: a returned result with restructuring but without anonymization.
C2_Witness ==
    /\ InDocument /\ pc = "done" /\ outcome.status = "returned"
    /\ processing_result.phases_completed = <<"extraction", "restructuring">>

\* C3: if extraction fails, process_document records the error and aborts at
\* once: the anonymizer and the restructuring client are not invoked, the
\* Entity Mapper's mapping, reverse index, counters and session stats keep
\* their values from before the call, and the call ends by raising
\* ProcessingError, never by returning a result.
C3_ExtractionFailureAborts ==
    (InDocument /\ ~extract(frame.file_path).ok) =>
        /\ pc \in {"extraction", "done"}
        /\ Mapper = obs.mapper0
        /\ obs.posts = 0
        /\ pc = "done" =>
              /\ outcome.status = "raised"
              /\ outcome.exc.class = "ProcessingError"
              /\ obs.trace = <<"extract">>
              /\ processing_result.errors # <<>>
              /\ processing_result.phases_completed = <<>>
              /\ processing_result.data = None

\* C3 witness: a document fails in extraction while the mapper holds entries
\* of an earlier document.
C3_Witness ==
    /\ InDocument /\ ~extract(frame.file_path).ok /\ pc = "done"
    /\ mapping_dict # <<>>

\* C4: once extraction has succeeded, no failure of the restructuring phase
\* makes process_document raise: it returns a result whose data is the
\* extracted or anonymized record and whose phases_completed has extraction.
C4_RestructuringNeverFatal ==
    (InDocument /\ pc = "done" /\ extract(frame.file_path).ok) =>
        /\ outcome.status = "returned"
        /\ processing_result.data # None
        /\ processing_result.phases_completed # <<>>
        /\ processing_result.phases_completed[1] = "extraction"

\* the anonymizer raised in the running call
AnonymizationRaised ==
    \E i \in 1..Len(processing_result.errors) :
        processing_result.errors[i][1] = "Anonymization failed"

\* C5: if the Content Anonymizer raises, the error is appended to errors, the
\* warning "Continuing with non-anonymized data" to warnings, anonymization is
\* not in phases_completed, data stays the extraction output, the
\* restructuring phase still runs when enabled, and process_document returns
\* a result instead of raising.
C5_AnonymizationFailureNotFatal ==
    (InDocument /\ AnonymizationRaised) =>
        /\ \E i \in 1..Len(processing_result.warnings) :
              processing_result.warnings[i] = "Continuing with non-anonymized data"
        /\ \A i \in 1..Len(processing_result.phases_completed) :
              processing_result.phases_completed[i] # "anonymization"
        /\ processing_result.data = frame.extraction_results
        /\ pc = "done" => outcome.status = "returned"


\* C6: process_multiple_documents on N file paths never raises (every
\* exception process_document lets out is a ProcessingError, which the loop
\* catches) and returns exactly N entries, entry i carrying the file_path of
\* input i, whatever each document's phases did.
C6_BatchOneEntryPerInput ==
    batch.active =>
        /\ Len(batch.results) = batch.i - 1
        /\ Len(batch.results) <= Len(batch.file_paths)
        /\ \A k \in 1..Len(batch.results) :
              batch.results[k].file_path = batch.file_paths[k]
        /\ (frame.caller = "batch" /\ pc = "done" /\ outcome.status = "raised")
              => outcome.exc.class = "ProcessingError"
        /\ pc = "batch_done" => Len(batch.results) = Len(batch.file_paths)

\* C6 witness: a batch of two different files has returned two entries, the
\* first for a document that raised and the second for one that returned.
C6_Witness ==
    /\ pc = "batch_done"
    /\ Len(batch.file_paths) = 2
    /\ batch.file_paths[1] # batch.file_paths[2]
    /\ Len(batch.results) = 2
    /\ batch.results[1].phases_completed = <<>>
    /\ batch.results[2].phases_completed # <<>>

\* the exception classes the restructuring client or the validation let out
\* besides LLMError
LlmSideErrors == {"KeyError", "TypeError", "AttributeError"}

\* entry e is the result of a document that ran its phases
CompletedEntry(e) ==
    /\ e.phases_completed # <<>>
    /\ e.phases_completed[1] = "extraction"
    /\ e.data # None

\* entry e is the error entry of a document that raised
ErrorEntry(e) ==
    /\ e.phases_completed = <<>>
    /\ e.errors # <<>>
    /\ e.data = None

\* C7: in a batch, a document whose extraction fails yields an entry with
\* phases_completed = [], a non-empty errors list and data = null; while it
\* runs the Entity Mapper keeps the value it had before; and every other
\* document of the batch, before or after it, still yields the entry of a
\* document that ran its phases, unless that document itself raised out of
\* its restructuring phase.
C7_FailedDocumentIsolated ==
    batch.active =>
        /\ \A k \in 1..Len(batch.results) :
              IF extract(batch.file_paths[k]).ok
              THEN \/ CompletedEntry(batch.results[k])
                   \/ /\ ErrorEntry(batch.results[k])
                      /\ batch.results[k].errors[1][2] \in LlmSideErrors
              ELSE /\ ErrorEntry(batch.results[k])
                   /\ batch.results[k].errors[1][2] \notin LlmSideErrors
        /\ (frame.caller = "batch" /\ ~extract(frame.file_path).ok) => Mapper = obs.mapper0

\* C7 witness: the first document of a batch failed in extraction and the
\* second one completed all three phases, with entities in the mapper.
C7_Witness ==
    /\ batch.active
    /\ Len(batch.results) = 2
    /\ ~extract(batch.file_paths[1]).ok
    /\ ErrorEntry(batch.results[1])
    /\ batch.results[2].phases_completed = Phases
    /\ mapping_dict # <<>>

\* C8: restructure_data called with max_retries = k sends at most k requests
\* to the completion endpoint; with k = 3 and the responses malformed,
\* malformed, valid object it returns the third response as parsed (with the
\* restructuring metadata added) after exactly 3 requests.
C8_AtMostMaxRetriesRequests ==
    InRestructure =>
        /\ obs.posts <= rd.max_retries
        /\ ( /\ frame.caller = "direct" /\ pc = "rd_done" /\ rd.max_retries = 3
             /\ obs.kinds = <<"malformed", "malformed", "json">>
             /\ obs.last.t = "obj" )
           => /\ rd.status = "returned"
              /\ obs.posts = 3
              /\ rd.value.t = "obj"
              /\ PopKey(rd.value.v, "restructuring_metadata") = obs.last.v

\* C8 witness: a call with max_retries = 3 returned on its third request
\* after two malformed responses.
C8_Witness ==
    /\ frame.caller = "direct" /\ pc = "rd_done" /\ rd.max_retries = 3
    /\ obs.kinds = <<"malformed", "malformed", "json">>
    /\ rd.status = "returned"
    /\ obs.posts = 3

\* the responses a retry follows
Retried == {"transport", "malformed"}

\* the class of the last response received
LastKind == obs.kinds[Len(obs.kinds)]

\* C9: in the retry loop of restructure_data a transport failure or a JSON
\* parse failure on an attempt before the last leads to another attempt (the
\* loop goes on only after such failures, one attempt per response); a
\* transport failure ends the call only on the last attempt and then with the
\* service-failure error, a parse failure only on the last attempt and then
\* with the invalid-response error.
C9_LastFailureDecides ==
    (frame.caller = "direct" /\ pc \in {"rd_loop", "rd_done"}) =>
        /\ pc = "rd_loop" =>
              /\ rd.attempt = Len(obs.kinds)
              /\ \A i \in 1..Len(obs.kinds) : obs.kinds[i] \in Retried
        /\ (pc = "rd_done" /\ obs.kinds # <<>>) =>
              /\ \A i \in 1..(Len(obs.kinds) - 1) : obs.kinds[i] \in Retried
              /\ LastKind = "transport" =>
                    /\ Len(obs.kinds) = rd.max_retries
                    /\ rd.status = "raised"
                    /\ rd.exc = LLMError("service_failure")
              /\ LastKind = "malformed" =>
                    /\ Len(obs.kinds) = rd.max_retries
                    /\ rd.status = "raised"
                    /\ rd.exc = LLMError("invalid_response")

\* C9 witness: a call with max_retries = 3 saw a parse failure, then a
\* transport failure, and ended on a third-attempt parse failure.
C9_Witness ==
    /\ frame.caller = "direct" /\ pc = "rd_done" /\ rd.max_retries = 3
    /\ obs.kinds = <<"malformed", "transport", "malformed">>
    /\ rd.exc = LLMError("invalid_response")

\* C10 as stated: if the health request of restructure_data raises or answers
\* with a non-200 status, the call fails with the service-unavailable error
\* and sends no completion request.
C10_ProbeFailureSendsNothing ==
    (frame.caller = "direct" /\ pc = "rd_done" /\ obs.probe \in {"non200", "raises"}) =>
        /\ rd.status = "raised"
        /\ rd.exc = LLMError("service_unavailable")
        /\ obs.posts = 0


\* the last direct call was anonymize_text and no reset happened since
TextCalled == call.op = "anonymize_text" /\ call.current

\* the items of a dict as a set (dict equality does not look at the order)
Items(d) == {d[i] : i \in 1..Len(d)}

\* the entity strings the tagger finds in a text
EntityTexts(text) == {nlp_ents(text)[i].text : i \in 1..Len(nlp_ents(text))}

\* text t has w as a substring
Contains(t, w) == \E i \in 0..(Len(t) - Len(w)) : Slice(t, i, i + Len(w)) = w

\* C11 as stated: for any text, anonymize_text followed by
\* reverse_anonymization of its output, with the returned local mapping or
\* with the global mapping, yields exactly the original text, also when the
\* text already contains a string equal to a label.
C11_RoundTrip ==
    TextCalled =>
        /\ reverse_anonymization(call.out, call.local) = call.text
        /\ reverse_anonymization(call.out, mapping_dict) = call.text

\* C12: within one session, when two anonymize_text calls follow each other
\* on texts containing the same entity string, both replace it with the same
\* label, and the second call adds to unique_entities and to the global
\* mapping only the entity strings the session had not seen, so that entity
\* is counted on the first call only.
C12_SameEntitySameLabel ==
    (TextCalled /\ call.prev.valid /\ nlp) =>
        /\ \A e \in EntityTexts(call.text) \cap EntityTexts(call.prev.text) :
              /\ DictHas(call.mapper0.entity_to_label, e)
              /\ <<DictGet(call.mapper0.entity_to_label, e), e>> \in Items(call.prev.local)
              /\ <<DictGet(call.mapper0.entity_to_label, e), e>> \in Items(call.local)
              /\ Contains(call.out, DictGet(call.mapper0.entity_to_label, e))
        /\ session_stats.unique_entities =
              call.mapper0.session_stats.unique_entities
              + Cardinality({e \in EntityTexts(call.text) :
                               ~DictHas(call.mapper0.entity_to_label, e)})
        /\ Len(mapping_dict) =
              Len(call.mapper0.mapping_dict)
              + Cardinality({e \in EntityTexts(call.text) :
                               ~DictHas(call.mapper0.entity_to_label, e)})

\* C12 witness: the second of two calls sees an entity of the first call again
\* together with a new one, and the count went up by exactly one.
C12_Witness ==
    /\ TextCalled /\ call.prev.valid /\ nlp
    /\ call.prev.text = <<"A", "l">>
    /\ call.text = <<"B", "o", " ", "A", "l">>
    /\ session_stats.unique_entities = call.mapper0.session_stats.unique_entities + 1

\* C13 as stated: in a fresh session anonymize_text on "Anna Schmidt traf Max
\* Müller." returns "PERSON_1 traf PERSON_2." and the local mapping
\* {PERSON_1: "Anna Schmidt", PERSON_2: "Max Müller"}: the ordinals follow the
\* left-to-right order of the entities.
C13_OrdinalsLeftToRight ==
    (TextCalled /\ nlp /\ call.mapper0 = EmptyMapper /\ call.text = AnnaTrafMax) =>
        /\ call.out = PERSON \o <<"_", "1">> \o <<" ", "t", "r", "a", "f", " ">> \o PERSON \o <<"_", "2", ".">>
        /\ Items(call.local) = { <<PERSON \o <<"_", "1">>, AnnaSchmidt>>,
                                 <<PERSON \o <<"_", "2">>, MaxMueller>> }


\* C14: the global mapping is append-only within a session: every step other
\* than reset_session (an anonymize_text, a phase of process_document alone or
\* in a batch) keeps every label of the global mapping with its original
\* text and position, so the entries of one document are still there when
\* later documents are processed.
C14_MappingAppendOnly ==
    [][reset_session \/ IsPrefix(mapping_dict, mapping_dict')]_vars

\* C14 witness: the second document of a behaviour has added entries to the
\* ones the first document left in the global mapping.
C14_Witness ==
    /\ InDocument /\ obs.submitted = 2
    /\ obs.mapper0.mapping_dict # <<>>
    /\ Len(mapping_dict) > Len(obs.mapper0.mapping_dict)
    /\ IsPrefix(obs.mapper0.mapping_dict, mapping_dict)

\* the items of the mappings attached to the pages and tables of a pdf record
PageItems(page) ==
    (IF MappingKey \in DOMAIN page THEN Items(page.anonymization_mapping) ELSE {})
    \cup UNION { IF MappingKey \in DOMAIN page.tables[j]
                 THEN Items(page.tables[j].anonymization_mapping) ELSE {} :
                 j \in 1..Len(page.tables) }

\* the items of every local mapping attached to a record
RecordItems(d) ==
    IF d = None THEN {}
    ELSE (IF "pages" \in DOMAIN d
          THEN UNION {PageItems(d.pages[i]) : i \in 1..Len(d.pages)} ELSE {})
         \cup
         (IF "sheets" \in DOMAIN d
          THEN UNION { IF MappingKey \in DOMAIN d.sheets[i]
                       THEN Items(d.sheets[i].anonymization_mapping) ELSE {} :
                       i \in 1..Len(d.sheets) }
          ELSE {})

\* the items of the local mappings the last direct call produced
ProducedItems == Items(call.local) \cup RecordItems(call.result)

\* C15 as stated: in every reachable state every label of a local mapping
\* produced so far (returned by anonymize_text or attached to a page, table or
\* sheet of a produced record) is in the global mapping with the same text.
C15_LocalWithinGlobal == ProducedItems \subseteq Items(mapping_dict)

\* C15 amended: every label of a local mapping produced since the last
\* reset_session is in the global mapping with the same original text.
C15_LocalWithinGlobalInSession ==
    call.current => ProducedItems \subseteq Items(mapping_dict)

\* C15 witness: a record anonymized in a session that already had entries
\* carries local mappings.
C15_Witness ==
    /\ call.current /\ call.op = "anonymize_extracted_content"
    /\ call.mapper0.mapping_dict # <<>>
    /\ Cardinality(RecordItems(call.result)) >= 2

\* C16: mapping_dict (label to original text) and entity_to_label (original
\* text to label) are inverse to each other in every reachable state: no two
\* original texts share a label and no original text has two labels.
C16_MappingBijective ==
    /\ Len(mapping_dict) = Len(entity_to_label)
    /\ \A i \in 1..Len(mapping_dict) :
          /\ DictHas(entity_to_label, mapping_dict[i][2])
          /\ DictGet(entity_to_label, mapping_dict[i][2]) = mapping_dict[i][1]
    /\ \A i \in 1..Len(entity_to_label) :
          /\ DictHas(mapping_dict, entity_to_label[i][2])
          /\ DictGet(mapping_dict, entity_to_label[i][2]) = entity_to_label[i][1]
    /\ \A i, j \in 1..Len(mapping_dict) :
          (mapping_dict[i][1] = mapping_dict[j][1] \/ mapping_dict[i][2] = mapping_dict[j][2])
             => i = j

\* C16 witness: a session holds several entities of one NER label next to one
\* of another label.
C16_Witness ==
    /\ Len(mapping_dict) >= 4
    /\ Len(counter) >= 2
    /\ call.n = MaxCalls


\* the last direct call was anonymize_extracted_content
ContentCalled == call.op = "anonymize_extracted_content"

C19_UnavailableMarkedCopy ==
    (ContentCalled /\ ~nlp) =>
        /\ ~call.raised
        /\ ~call.same_object
        /\ "anonymization_metadata" \in DOMAIN call.result
        /\ call.result.anonymization_metadata.anonymized = FALSE
        /\ PopKey(call.result, "anonymization_metadata") = call.input

\* C19 amended: with the NER model unavailable anonymize_extracted_content
\* does not fail and returns the input record itself, content unchanged and
\* without anonymization metadata; the mapper is left as it was.
C19_UnavailableReturnsInput ==
    (ContentCalled /\ ~nlp) =>
        /\ ~call.raised
        /\ call.same_object
        /\ call.result = call.input
        /\ call.input_after = call.input
        /\ "anonymization_metadata" \notin DOMAIN call.result
        /\ call.current => Mapper = call.mapper0

\* C19 witness: without the NER model an excel record came back as it went in.
C19_Witness ==
    /\ ContentCalled /\ ~nlp /\ ~call.raised
    /\ call.input.file_type = "excel"
    /\ call.result = call.input

\* C20: anonymize_text on an empty or whitespace-only text, or without the NER
\* model, returns (text, {}) and leaves the global mapping, the reverse
\* index, the counters and the session stats unchanged.
C20_IdentityWithoutWork ==
    (TextCalled /\ (~nlp \/ call.text = <<>> \/ IsBlank(call.text))) =>
        /\ call.out = call.text
        /\ call.local = <<>>
        /\ Mapper = call.mapper0

\* C20 witness: a text with entities went through unchanged without the NER
\* model.
C20_Witness ==
    /\ TextCalled /\ ~nlp
    /\ call.text = <<"A", "l", " ", "X">>
    /\ call.out = call.text


\* an element of `employees` that has an absence_records array
HasAbsenceRecords(employee) ==
    /\ employee.t = "obj"
    /\ "absence_records" \in DOMAIN employee.v
    /\ employee.v.absence_records.t = "arr"

\* the structure C21 requires of a parsed object
WellFormed(data) ==
    /\ {"document_type", "extraction_date"} \subseteq DOMAIN data.v
    /\ data.v.document_type = JStr("absence_records") =>
          /\ "employees" \in DOMAIN data.v
          /\ data.v.employees.t = "arr"
          /\ \A i \in 1..Len(data.v.employees.v) : HasAbsenceRecords(data.v.employees.v[i])

\* C21: validate_restructured_data returns true exactly when the object has
\* document_type and extraction_date and, for document_type
\* "absence_records", an employees array whose every element has an
\* absence_records array; in every other case, an employees value that is
\* not an array included, it returns false.
C21_ValidatesExactly ==
    validation.called =>
        validation.result = (IF WellFormed(validation.data) THEN "true" ELSE "false")

\* C22: validate_restructured_data never raises: for every parsed object,
\* whatever its employees field or the elements of it are, the call returns
\* a boolean.
C22_ValidateNeverRaises ==
    validation.called => validation.result \in {"true", "false"}

\* process_document's own availability check (line 153) says unavailable
ProbeUnavailableStep ==
    pc = "restructuring" /\ frame.restructure /\ pc' = "update_stats"

\* restructure_data, called by process_document, raised an LLMError: its own
\* probe failed, the last attempt failed in transport or gave invalid JSON
ClientFailureStep ==
    /\ pc = "rd_done" /\ frame.caller # "direct" /\ pc' # pc
    /\ rd.status = "raised" /\ rd.exc.class = "LLMError"

\* one error, the warning and one count are added
FailureRecorded ==
    /\ Len(processing_result'.errors) = Len(processing_result.errors) + 1
    /\ processing_result'.warnings =
          Append(processing_result.warnings, "Continuing without restructured data")
    /\ processing_stats'.restructuring_errors = processing_stats.restructuring_errors + 1

\* C23 as stated: every kind of restructuring failure in process_document
\* (service unavailable at the probe, retries exhausted on transport failure,
\* invalid JSON after all attempts) appends one entry to errors and the
\* warning "Continuing without restructured data", and increments
\* restructuring_errors by one.
C23_EveryFailureRecorded ==
    [][(ProbeUnavailableStep \/ ClientFailureStep) => FailureRecorded]_vars

\* C23, amended: every failure the Restructuring Client raises as LLMError is
\* recorded with one error, the warning and one count; when the
\* orchestrator's own availability check reports the service unavailable,
\* only the warning "LLM restructuring not available" is appended, no error
\* is recorded and restructuring_errors is unchanged.
C23_ClientFailureRecorded ==
    [][/\ ClientFailureStep => FailureRecorded
       /\ ProbeUnavailableStep =>
             /\ processing_result'.errors = processing_result.errors
             /\ processing_result'.warnings =
                   Append(processing_result.warnings, "LLM restructuring not available")
             /\ processing_stats' = processing_stats]_vars

\* a document whose restructuring ended in an LLMError that was recorded
C23_Witness ==
    /\ pc = "update_stats"
    /\ processing_result.errors # <<>>
    /\ processing_result.errors[Len(processing_result.errors)] =
          <<"LLM restructuring failed", "LLMError">>
    /\ processing_result.warnings[Len(processing_result.warnings)] =
          "Continuing without restructured data"
    /\ processing_stats.restructuring_errors >= 1

InvalidStructureWarning == "LLM restructuring produced invalid data structure"

\* the step of process_document that follows a validation answering False
ValidationFailsStep ==
    /\ pc = "rd_done" /\ frame.caller # "direct" /\ pc' # pc
    /\ rd.status = "returned"
    /\ validate_restructured_data(rd.value) = "false"

\* the call that got the warning and has not yet handed over its result
WarnedOfInvalidStructure ==
    /\ pc \in {"update_stats", "done"}
    /\ processing_result.warnings # <<>>
    /\ processing_result.warnings[Len(processing_result.warnings)] = InvalidStructureWarning

\* C24: when the Restructuring Client returns a parsed object that fails
\* validate_restructured_data, process_document appends a warning and no
\* error, leaves restructured_data out of the result, does not add
\* 'restructuring' to phases_completed, and returns normally.
C24_InvalidStructureWarned ==
    /\ [][ValidationFailsStep =>
            /\ processing_result'.warnings =
                  Append(processing_result.warnings, InvalidStructureWarning)
            /\ processing_result'.errors = processing_result.errors
            /\ processing_result'.phases_completed = processing_result.phases_completed
            /\ processing_stats' = processing_stats
            /\ pc' = "update_stats"]_vars
    /\ [](WarnedOfInvalidStructure =>
            /\ "restructured_data" \notin DOMAIN processing_result
            /\ \A i \in 1..Len(processing_result.phases_completed) :
                  processing_result.phases_completed[i] # "restructuring"
            /\ pc = "done" => outcome.status = "returned")

\* a document returned with the warning, restructuring not among its phases
C24_Witness ==
    /\ WarnedOfInvalidStructure
    /\ pc = "done" /\ outcome.status = "returned"
    /\ processing_result.phases_completed = <<"extraction", "anonymization">>
    /\ processing_result.errors = <<>>

\* a process_document call ends, by returning or by raising
DocumentEndsStep == pc # "done" /\ pc' = "done"

\* C25: after any sequence of process_document calls since construction or
\* reset_stats, files_processed equals the number of documents submitted,
\* whether each succeeded, completed with errors or failed in extraction, and
\* last_processed is updated by each of them: every call that ends adds one
\* to files_processed and stamps last_processed.
C25_EveryDocumentCounted ==
    [][DocumentEndsStep =>
          /\ processing_stats'.files_processed = processing_stats.files_processed + 1
          /\ processing_stats'.last_processed = obs.submitted]_vars

\* the position of x in the sequence order (0 when it is not there)
Rank(order, x) ==
    IF \E i \in 1..Len(order) : order[i] = x
    THEN CHOOSE i \in 1..Len(order) : order[i] = x
    ELSE 0

\* s lists members of order, each at most once, in the order of order
InOrderOnce(s, order) ==
    /\ \A i \in 1..Len(s) : Rank(order, s[i]) > 0
    /\ \A i, j \in 1..Len(s) : i < j => Rank(order, s[i]) < Rank(order, s[j])

Member(s, x) == \E i \in 1..Len(s) : s[i] = x

\* an errors list holds an entry with this message
HasError(errors, message) == \E i \in 1..Len(errors) : errors[i][1] = message

\* the shape C29 requires of a phases_completed list
PhasesShape(phases_completed) ==
    /\ InOrderOnce(phases_completed, Phases)
    /\ phases_completed # <<>> => phases_completed[1] = "extraction"

\* a result's phase names are backed by what the result holds
PhasesBacked(result) ==
    /\ Member(result.phases_completed, "extraction") => result.data # None
    /\ Member(result.phases_completed, "anonymization") =>
          ~HasError(result.errors, "Anonymization failed")
    /\ Member(result.phases_completed, "restructuring") =>
          /\ "restructured_data" \in DOMAIN result
          /\ ~HasError(result.errors, "LLM restructuring failed")

\* C29: in every returned result and every batch entry, phases_completed has
\* no duplicates, lists the phases in the order extraction, anonymization,
\* restructuring, holds anonymization or restructuring only if it holds
\* extraction, and holds a phase name only if that phase ran and succeeded.
C29_PhasesWellFormed ==
    /\ (pc = "done" /\ outcome.status = "returned") =>
          /\ PhasesShape(processing_result.phases_completed)
          /\ PhasesBacked(processing_result)
          /\ Member(processing_result.phases_completed, "extraction") =>
                Member(obs.trace, "extract")
          /\ Member(processing_result.phases_completed, "anonymization") =>
                Member(obs.trace, "anonymize")
          /\ Member(processing_result.phases_completed, "restructuring") =>
                Member(obs.trace, "restructure") /\ Member(obs.trace, "validate")
    /\ \A i \in 1..Len(batch.results) :
          /\ PhasesShape(batch.results[i].phases_completed)
          /\ PhasesBacked(batch.results[i])

\* a batch whose first entry has all three phases and whose second entry is
\* a document that lost its anonymization phase
C29_Witness ==
    /\ pc = "batch_done" /\ Len(batch.results) = 2
    /\ batch.results[1].phases_completed = Phases
    /\ batch.results[2].phases_completed = <<"extraction", "restructuring">>

\* the collaborators process_document invokes, in source order
Collaborators == <<"extract", "anonymize", "sanitize", "restructure", "validate">>

\* C30: within one process_document call the phases run strictly one after
\* the other and each at most once: extractor, then anonymizer, then sanitize
\* and the Restructuring Client, then validation; nothing starts before the
\* previous one has returned or raised.
C30_PhasesSequential ==
    /\ InOrderOnce(obs.trace, Collaborators)
    /\ obs.trace # <<>> => obs.trace[1] = "extract"
    /\ Member(obs.trace, "sanitize") => Member(obs.trace, "anonymize")
    /\ Member(obs.trace, "validate") => Member(obs.trace, "restructure")
    /\ rd.status = "running" => pc \in {"rd_probe", "rd_loop"} /\ ~Member(obs.trace, "validate")
    /\ pc \in {"extraction", "anonymization", "restructuring"} => rd.status = "none"

\* a call that went through all five collaborators
C30_Witness ==
    /\ pc = "done" /\ outcome.status = "returned"
    /\ obs.trace = Collaborators

\* what C26 requires of the status reported for a result or batch entry
StatusFollowsErrors(result) ==
    /\ result.errors = <<>> =>
          get_processing_summary(result).status = "Successfully completed"
    /\ (result.errors # <<>> /\ result.data # None) =>
          get_processing_summary(result).status = "Completed with errors"
    /\ ErrorEntry(result) =>
          get_processing_summary(result).status
             \notin {"Successfully completed", "Completed with errors"}

\* C26: the reported status follows the errors list: a result with warnings
\* but no errors is reported as successfully completed, one with recorded
\* errors and extracted data as completed with errors, and a fatal extraction
\* failure is never reported as completed by get_processing_summary on its
\* result entry.
C26_StatusFollowsErrors ==
    /\ (pc = "done" /\ outcome.status = "returned") => StatusFollowsErrors(processing_result)
    /\ \A i \in 1..Len(batch.results) : StatusFollowsErrors(batch.results[i])

\* a process_file_background coroutine is inside process_document
Active(t) ==
    background[t].pc \in {"extract", "anonymize", "check", "mint", "restructure", "finish"}

\* C27: documents scheduled as background tasks on the shared
\* DocumentProcessor have serialized access to the Entity Mapper: at most one
\* coroutine is inside process_document at a time, so no two anonymization
\* phases interleave and no two check-then-mint steps overlap; no label is
\* minted twice or overwritten: the two mappings stay inverse to each other.
C27_MapperAccessSerialized ==
    /\ \A t, u \in TaskIds : (Active(t) /\ Active(u)) => t = u
    /\ Len(mapping_dict) = Len(entity_to_label)
    /\ \A i \in 1..Len(entity_to_label) :
          /\ DictHas(mapping_dict, entity_to_label[i][2])
          /\ DictGet(mapping_dict, entity_to_label[i][2]) = entity_to_label[i][1]
    /\ \A i, j \in 1..Len(mapping_dict) :
          mapping_dict[i][1] = mapping_dict[j][1] => i = j

\* two uploads, both anonymized and completed, whose documents share entities
C27_Witness ==
    /\ \A t \in 1..2 :
          /\ t \in DOMAIN processing_tasks /\ processing_tasks[t].status = "completed"
          /\ t \in DOMAIN results_storage
          /\ Member(results_storage[t].phases_completed, "anonymization")
    /\ Len(mapping_dict) = 3
    /\ session_stats.total_entities > 3

\* C28: each queued uploaded task ends with status 'completed' or 'failed',
\* also when delete_task is called on it while it is still pending: whenever
\* a process_file_background coroutine ends, its task is in the table with
\* one of the two statuses.
C28_TaskEndsWithStatus ==
    [][\A t \in TaskIds :
          (background[t].pc \notin {"returned", "crashed"}
           /\ background'[t].pc \in {"returned", "crashed"}) =>
             /\ t \in DOMAIN processing_tasks'
             /\ processing_tasks'[t].status \in {"completed", "failed"}]_vars

\* the metadata restructure_data stamps on the object it returns
Stamped(value, anonymized_data) ==
    /\ value.t = "obj"
    /\ "restructuring_metadata" \in DOMAIN value.v
    /\ LET meta == value.v["restructuring_metadata"].v
       IN  /\ DOMAIN meta = {"restructured_by", "model_used", "restructuring_date",
                             "original_file", "anonymization_preserved"}
           /\ meta.model_used = JStr("phi-3-mini-4k-instruct")
           /\ meta.original_file = JStr(anonymized_data.file_path)
           /\ meta.anonymization_preserved = TRUE

\* C31: the first response that parses as a JSON object ends the call: it is
\* the last response of the call, the call returns that object stamped with
\* restructuring_metadata (model_used, restructuring_date, original_file,
\* anonymization_preserved = true), and once the orchestrator has validated
\* the returned object no completion request is sent for that document
C31_FirstObjectReturned ==
    /\ \A i \in 1..Len(obs.kinds) :
          obs.kinds[i] = "json" =>
             /\ i = Len(obs.kinds)
             /\ pc = "rd_done"
             /\ obs.last.t = "obj" =>
                   /\ rd.status = "returned"
                   /\ PopKey(rd.value.v, "restructuring_metadata") = obs.last.v
    /\ (pc = "rd_done" /\ rd.status = "returned") => Stamped(rd.value, rd.anonymized_data)
    /\ Member(obs.trace, "validate") => (obs.posts = 0 /\ pc \in {"update_stats", "done"})

C31_Witness ==
    /\ pc = "update_stats"
    /\ Member(obs.trace, "validate")
    /\ "restructured_data" \notin DOMAIN processing_result
    /\ processing_result.warnings # <<>>

\* the text with each span, taken left to right from offset from on, replaced
\* by the label entity_to_label holds for it and everything else kept
RECURSIVE Rewritten(_, _, _, _)
Rewritten(text, ents, from, e2l) ==
    IF ents = <<>> THEN Slice(text, from, Len(text))
    ELSE Slice(text, from, Head(ents).start) \o DictGet(e2l, Head(ents).text)
            \o Rewritten(text, Tail(ents), Head(ents).end, e2l)

\* the spans are pairwise non-overlapping and lie within the text
NonOverlapping(text, ents) ==
    /\ \A i \in 1..Len(ents) : 0 <= ents[i].start /\ ents[i].start < ents[i].end
                               /\ ents[i].end <= Len(text)
    /\ \A i \in 1..(Len(ents) - 1) : ents[i].end <= ents[i + 1].start

\* C32: anonymize_text on a text whose spans are pairwise non-overlapping
\* returns the original text with exactly the characters of each span
\* replaced by that span's label and every other character kept in order
C32_SpansRewrittenInPlace ==
    (TextCalled /\ nlp /\ ~IsBlank(call.text)) =>
        /\ NonOverlapping(call.text, nlp_ents(call.text))
        /\ call.out = Rewritten(call.text, nlp_ents(call.text), 0, entity_to_label)

\* C32 witness: two spans in one text, both replaced by labels longer than the
\* spans, the text between them kept
C32_Witness ==
    /\ TextCalled /\ nlp
    /\ call.text = <<"B", "o", " ", "A", "l">>
    /\ call.mapper0 = EmptyMapper
    /\ call.out = <<"P", "E", "R", "_", "2", " ", "P", "E", "R", "_", "1">>

\* the entity strings of the text the session had not seen at mapper m
UnseenTexts(text, m) == {e \in EntityTexts(text) : ~DictHas(m.entity_to_label, e)}

\* the NER label of the span of entity string e that the loop meets first,
\* i.e. the rightmost one
FirstLabelOf(text, e) ==
    LET ents == SortByStartDesc(nlp_ents(text))
    IN  ents[CHOOSE i \in 1..Len(ents) :
                /\ ents[i].text = e
                /\ \A j \in 1..(i - 1) : ents[j].text # e].label

\* C33: the label of a span is looked up by its entity string alone: a string
\* the session knows keeps its label, whatever NER label the span carries, and
\* advances no counter and adds no global entry; a string the session had not
\* seen advances the counter of its own NER label and gets "<label>_<counter>"
C33_ReuseKeyedOnTextAlone ==
    (TextCalled /\ nlp) =>
        /\ \A i \in 1..Len(nlp_ents(call.text)) :
              LET ent == nlp_ents(call.text)[i]
              IN  DictHas(call.mapper0.entity_to_label, ent.text) =>
                     /\ DictGet(entity_to_label, ent.text)
                           = DictGet(call.mapper0.entity_to_label, ent.text)
                     /\ <<DictGet(call.mapper0.entity_to_label, ent.text), ent.text>>
                           \in Items(call.local)
                     /\ call.out = Rewritten(call.text, nlp_ents(call.text), 0,
                                             entity_to_label)
        /\ \A T \in {PER, ORG, PERSON} :
              DictGetInt(counter, T) =
                 DictGetInt(call.mapper0.counter, T)
                 + Cardinality({e \in UnseenTexts(call.text, call.mapper0) :
                                  FirstLabelOf(call.text, e) = T})
        /\ Len(mapping_dict) = Len(call.mapper0.mapping_dict)
                               + Cardinality(UnseenTexts(call.text, call.mapper0))
        /\ \A e \in UnseenTexts(call.text, call.mapper0) :
              \E k \in (DictGetInt(call.mapper0.counter, FirstLabelOf(call.text, e)) + 1)
                       ..DictGetInt(counter, FirstLabelOf(call.text, e)) :
                 /\ DictGet(entity_to_label, e)
                       = FirstLabelOf(call.text, e) \o <<"_">> \o IntToStr(k)
                 /\ <<DictGet(entity_to_label, e), e>> \in Items(mapping_dict)

\* C33 witness: "X" was first seen as an organisation and is met again in a
\* span labelled as a person: it keeps ORG_1 and no PER counter moves
C33_Witness ==
    /\ TextCalled /\ nlp
    /\ call.text = <<"M", "r", " ", "X">>
    /\ nlp_ents(call.text)[1].label = PER
    /\ DictHas(call.mapper0.entity_to_label, <<"X">>)
    /\ DictGet(call.mapper0.entity_to_label, <<"X">>) = ORG \o <<"_", "1">>
    /\ call.out = <<"M", "r", " ">> \o ORG \o <<"_", "1">>
    /\ counter = call.mapper0.counter
    /\ mapping_dict = call.mapper0.mapping_dict

\* sum(d.values()) of a dict of integers
RECURSIVE SumValues(_)
SumValues(d) == IF d = <<>> THEN 0 ELSE Head(d)[2] + SumValues(Tail(d))

\* C34: in every state of a session total_entities equals the sum over the
\* NER labels of entity_types[label]; an anonymize_text call adds to it the
\* number of spans of its text, a traversal the number of spans of the texts
\* it handed to anonymize_text; and the local mapping of an anonymize_text
\* call holds the label of every span of that call, mapped to the span's text
C34_OccurrencesCounted ==
    /\ session_stats.total_entities = SumValues(session_stats.entity_types)
    /\ (TextCalled /\ nlp) =>
          /\ session_stats.total_entities =
                call.mapper0.session_stats.total_entities
                + (IF IsBlank(call.text) THEN 0 ELSE Len(nlp_ents(call.text)))
          /\ \A i \in 1..Len(nlp_ents(call.text)) :
                <<DictGet(entity_to_label, nlp_ents(call.text)[i].text),
                  nlp_ents(call.text)[i].text>> \in Items(call.local)
    /\ (call.op = "anonymize_extracted_content" /\ call.current /\ nlp /\ ~call.raised) =>
          session_stats.total_entities =
             call.mapper0.session_stats.total_entities
             + Len(RecordSpans(RecordTexts(call.input)))

\* C34 witness: a call on a text with two spans, one of a string the session
\* knew, so the occurrences outnumber the entries of the global mapping
C34_Witness ==
    /\ TextCalled /\ nlp
    /\ Len(nlp_ents(call.text)) = 2
    /\ Len(call.local) = 2
    /\ session_stats.total_entities = 3
    /\ Len(session_stats.entity_types) = 2
    /\ session_stats.unique_entities = 2

\* node carries an anonymization_mapping that maps the session's label of
\* every entity string of the texts to that string
CarriesMapping(node, texts) ==
    /\ "anonymization_mapping" \in DOMAIN node
    /\ \A i \in 1..Len(texts) : \A e \in EntityTexts(texts[i]) :
          <<DictGet(entity_to_label, e), e>> \in Items(node.anonymization_mapping)

\* the texts directly inside a table and inside a sheet of the caller's record
TableTexts(table) ==
    RecordTexts([file_type |-> "pdf",
                 pages |-> << [text_content |-> <<>>, tables |-> <<table>>] >>])

SheetTexts(sheet) == RecordTexts([file_type |-> "excel", sheets |-> <<sheet>>])

\* C35 as stated: in the record anonymize_extracted_content returns, every
\* page, every table and every sheet carries an anonymization_mapping field
\* holding the local mappings of the text fields directly inside the node
C35_EveryNodeCarriesMapping ==
    (call.op = "anonymize_extracted_content" /\ call.current /\ nlp /\ ~call.raised) =>
        IF call.input.file_type = "pdf"
        THEN \A i \in 1..Len(call.result.pages) :
                /\ CarriesMapping(call.result.pages[i], <<call.input.pages[i].text_content>>)
                /\ \A j \in 1..Len(call.result.pages[i].tables) :
                      CarriesMapping(call.result.pages[i].tables[j],
                                     TableTexts(call.input.pages[i].tables[j]))
        ELSE \A i \in 1..Len(call.result.sheets) :
                CarriesMapping(call.result.sheets[i], SheetTexts(call.input.sheets[i]))

\* the keys of the mapping that the text carries at offset pos
KeysAt(text, pos, mapping) ==
    {k \in 1..Len(mapping) : MatchAt(text, pos, mapping[k][1])}

\* the text read from offset pos on, each label occurrence, taken as the
\* longest label standing there, replaced by the original text of that label
RECURSIVE Restored(_, _, _)
Restored(text, pos, mapping) ==
    IF pos >= Len(text) THEN <<>>
    ELSE IF KeysAt(text, pos, mapping) = {}
         THEN <<text[pos + 1]>> \o Restored(text, pos + 1, mapping)
         ELSE LET k == CHOOSE k \in KeysAt(text, pos, mapping) :
                          \A j \in KeysAt(text, pos, mapping) :
                             Len(mapping[j][1]) <= Len(mapping[k][1])
              IN  mapping[k][2] \o Restored(text, pos + Len(mapping[k][1]), mapping)

\* C36: reverse_anonymization substitutes the labels longest first: with
\* PERSON_1 and PERSON_10 both in the mapping, every occurrence of PERSON_10
\* is replaced by its own original text and every other PERSON_1 by the
\* original text of PERSON_1
C36_LongerLabelFirst ==
    call.op = "reverse_anonymization" => call.out = Restored(call.text, 0, call.local)

\* C36 witness: the shorter label comes first in the mapping, the text holds
\* both labels, and PERSON_10 came back as "Bo", not as "Al0"
C36_Witness ==
    /\ call.op = "reverse_anonymization"
    /\ call.local[1][1] = PERSON \o <<"_", "1">>
    /\ call.text = PERSON \o <<"_", "1", "0", " ">> \o PERSON \o <<"_", "1">>
    /\ call.out = <<"B", "o", " ", "A", "l">>

\* result lists 'restructuring' exactly when it has restructured_data, and
\* that object passed validation and carries restructuring_metadata
RestructuringBacked(result) ==
    /\ Member(result.phases_completed, "restructuring") <=> "restructured_data" \in DOMAIN result
    /\ "restructured_data" \in DOMAIN result =>
          /\ validate_restructured_data(result.restructured_data) = "true"
          /\ result.restructured_data.t = "obj"
          /\ "restructuring_metadata" \in DOMAIN result.restructured_data.v
          /\ result.restructured_data.v["restructuring_metadata"].v.anonymization_preserved

\* C37: in every result process_document returns, alone or as a batch entry,
\* 'restructuring' is in phases_completed if and only if the result has a
\* restructured_data field, and that object then passed
\* validate_restructured_data and carries restructuring_metadata
C37_RestructuringIffData ==
    /\ (pc = "done" /\ outcome.status = "returned") => RestructuringBacked(processing_result)
    /\ \A i \in 1..Len(batch.results) : RestructuringBacked(batch.results[i])

\* C37 witness: one returned result with the phase and the validated object,
\* and a returned result whose object failed validation and has neither
C37_Witness ==
    /\ pc = "done" /\ outcome.status = "returned"
    /\ Member(obs.trace, "validate")
    /\ "restructured_data" \notin DOMAIN processing_result
    /\ \E i \in 1..Len(batch.results) : "restructured_data" \in DOMAIN batch.results[i]

\* the labels T_1 .. T_k
Ordinals(T, k) == {T \o <<"_">> \o IntToStr(n) : n \in 1..k}

\* C38: in every state of the mapper the labels minted for an NER label T are
\* exactly T_1 .. T_k with k = counter[T], there are no other labels, and
\* unique_entities equals the size of the global mapping and the sum of the
\* per-type counters
C38_LabelsDenseAndCounted ==
    /\ Items(DictKeys(counter)) \subseteq {PER, ORG, PERSON}
    /\ Items(DictKeys(mapping_dict)) =
          UNION {Ordinals(T, DictGetInt(counter, T)) : T \in {PER, ORG, PERSON}}
    /\ Cardinality(Items(DictKeys(mapping_dict))) = Len(mapping_dict)
    /\ session_stats.unique_entities = Len(mapping_dict)
    /\ session_stats.unique_entities = SumValues(counter)
    /\ Len(entity_to_label) = Len(mapping_dict)

\* C38 witness: two labels of one type and one of another, after a span whose
\* string was already known
C38_Witness ==
    /\ DictGetInt(counter, PER) = 2
    /\ DictGetInt(counter, ORG) = 1
    /\ session_stats.unique_entities = 3
    /\ session_stats.total_entities > 3

\* process_document leaves during extraction: the extractor raised
AbortedInExtractionStep == pc = "extraction" /\ pc' = "done"

\* the anonymization phase ends without the phase name: the anonymizer raised
AnonymizationRaisedStep ==
    /\ pc = "anonymization" /\ pc' # pc /\ frame.anonymize /\ nlp
    /\ ~Member(processing_result'.phases_completed, "anonymization")

\* restructure_data or the validation of its object raised
RestructuringRaisedStep ==
    /\ pc = "rd_done" /\ frame.caller # "direct" /\ pc' # pc
    /\ rd.status = "raised" \/ validate_restructured_data(rd.value) \notin {"true", "false"}

\* C39 as stated: every document that fails in a phase adds one to that
\* phase's error counter, whatever exception was raised (a missing file
\* included), and a counter grows on no other step
C39_FailuresCountedPerPhase ==
    [][ /\ AbortedInExtractionStep <=>
              processing_stats'.extraction_errors = processing_stats.extraction_errors + 1
        /\ AnonymizationRaisedStep <=>
              processing_stats'.anonymization_errors = processing_stats.anonymization_errors + 1
        /\ RestructuringRaisedStep <=>
              processing_stats'.restructuring_errors
                 = processing_stats.restructuring_errors + 1 ]_vars

\* the moves a task status may make in one step
StatusMoves ==
    { <<"pending", "processing">>, <<"processing", "completed">>,
      <<"processing", "failed">> }

\* what the table says of task t: a terminal status exactly with completed_at
\* set, 'completed' only with the result stored
TaskConsistent(tasks, results, t) ==
    /\ tasks[t].status \in {"pending", "processing", "completed", "failed"}
    /\ tasks[t].status \in {"completed", "failed"} <=> tasks[t].completed_at # "None"
    /\ tasks[t].status = "completed" => t \in DOMAIN results

\* C40: under every interleaving of upload_file, the background coroutines
\* and delete_task, the status of a task only moves pending -> processing ->
\* completed or failed, a terminal status never changes again, a deleted task
\* does not come back, completed_at is set exactly when the status is
\* terminal, and a task is 'completed' only while results_storage holds its
\* result
C40_StatusMonotone ==
    [][\A t \in TaskIds :
          /\ (t \in DOMAIN processing_tasks /\ t \in DOMAIN processing_tasks') =>
                \/ processing_tasks'[t] = processing_tasks[t]
                \/ <<processing_tasks[t].status, processing_tasks'[t].status>> \in StatusMoves
          /\ (t \notin DOMAIN processing_tasks /\ t \in DOMAIN processing_tasks') =>
                /\ processing_tasks'[t].status = "pending"
                /\ background[t].pc = "none"
          /\ t \in DOMAIN processing_tasks' =>
                TaskConsistent(processing_tasks', results_storage', t)]_vars

\* C40 witness: one task completed with its result stored, the other failed
\* without one, both stamped with completed_at
C40_Witness ==
    /\ DOMAIN processing_tasks = {1, 2}
    /\ processing_tasks[1] = [status |-> "completed", completed_at |-> "now"]
    /\ processing_tasks[2] = [status |-> "failed", completed_at |-> "now"]
    /\ DOMAIN results_storage = {1}

=============================================================================
